---- MODULE Spec2Model ----
(***************************************************************************)
(* Model of the perp-futures core: risk precheck, PnL conversion, funding  *)
(* and borrowing index evolution, price impact and increase pricing.       *)
(*                                                                         *)
(* Integer widths.  Usd and TokenAmount are i128 in the source and the     *)
(* price-impact intermediates are U256.  The model keeps the same          *)
(* arithmetic (checked, saturating, truncating, two's-complement           *)
(* reinterpretation) on narrower words: a signed word of UsdBits bits      *)
(* stands for i128, an unsigned word of WideBits bits for U256, and        *)
(* 10^FpDigits for the 10^18 fixed-point scale.  WideBits > UsdBits +      *)
(* log2(10^FpDigits), so, as in the source, a wide quotient can exceed the *)
(* signed word.                                                            *)
(***************************************************************************)
EXTENDS Integers, Sequences, FiniteSets, TLC

VARIABLES
    pc,              \* position of the driver of the specification in use
    pos,             \* Position handed to the risk precheck
    order,           \* Order handed to the risk precheck
    prices,          \* OraclePrices
    risk,            \* RiskCfg
    pre_out,         \* result of precheck_decrease_and_withdraw
    pre_again,       \* result of the precheck applied to its own outputs
    overflow_checks, \* the build: TRUE panics on arithmetic overflow, FALSE wraps
    pnl_usd,         \* argument of pnl_usd_to_collateral_tokens
    pnl_out,         \* result of pnl_usd_to_collateral_tokens
    market,          \* MarketState: open interest, liquidity, funding, borrowing
    long_pos,        \* a long Position settled against the funding indices
    short_pos,       \* a short Position settled against the funding indices
    fee_long,        \* FundingDelta last returned for long_pos
    fee_short,       \* FundingDelta last returned for short_pos
    oi,              \* OpenInterestParams: current and next long/short open interest
    cfg,             \* ImpactRebalanceConfig
    impact_out,      \* result of get_price_impact_usd
    params,          \* ExecutionPriceIncreaseParams: side and size_delta_usd
    pricing_out,     \* result of get_execution_price_for_increase
    pre_args,        \* arguments of will_position_collateral_be_sufficient_pre
    pos_after,       \* Position handed to postcheck_remaining_position
    suff_out,        \* result of will_position_collateral_be_sufficient_pre
    post_out,        \* result of postcheck_remaining_position
    pool_balances,   \* PoolBalances.balances: (market, asset) -> TokenAmount
    pool_last,       \* the last PoolBalances call: arguments, map before, result
    pool_ops,        \* number of PoolBalances calls made
    claimables,      \* Claimables: the funding and the fees ledgers
    claim_last,      \* the last Claimables call: arguments, ledger before, result
    claim_ops,       \* number of mutating Claimables calls made
    listing,         \* list_by_account as returned for two equal ledgers
    order_store,     \* OrderStore: the live orders and next_id
    created_ids,     \* the ids returned by create, in call order
    removed_ids,     \* the ids whose order was taken out by remove
    order_panic,     \* TRUE once create has panicked on id overflow
    market_once,     \* a copy of the market advanced by one update where
                     \* `market` is advanced by two
    step_pos,        \* Position handed to apply_funding_step
    step_out,        \* the last apply_funding_step call and its result
    step_calls,      \* number of apply_funding_step calls made
    close_args,      \* arguments of size_delta_in_tokens
    close_out,       \* result of size_delta_in_tokens
    fees_svc,        \* BasicFeesService: the configured fee rates
    fee_args,        \* arguments of compute_fees
    fees_out         \* StepFees returned with and without the rebate

preVars == <<pos, order, risk, pre_out, pre_again>>
pnlVars == <<pnl_usd, pnl_out>>
mktVars == <<market, long_pos, short_pos, fee_long, fee_short>>
impVars == <<oi, cfg, impact_out>>
prcVars == <<params, pricing_out>>
chkVars == <<pre_args, pos_after, suff_out, post_out>>
poolVars == <<pool_balances, pool_last, pool_ops>>
\* The state containers.
clmVars == <<claimables, claim_last, claim_ops, listing>>
ordVars == <<order_store, created_ids, removed_ids, order_panic>>
storeVars == <<poolVars, clmVars, ordVars>>
\* Time-additivity, the funding step, position math and fees.
twinVars == <<market_once>>
stepVars == <<step_pos, step_out, step_calls>>
closeVars == <<close_args, close_out>>
feesVars == <<fees_svc, fee_args, fees_out>>
lateVars == <<twinVars, stepVars, closeVars, feesVars>>
vars ==
    <<pc, prices, overflow_checks, preVars, pnlVars, mktVars, impVars, prcVars,
      chkVars, storeVars, lateVars>>

\* What each driver leaves alone.
notPreVars == <<pnlVars, mktVars, impVars, prcVars, chkVars, storeVars, lateVars>>
notPnlVars == <<preVars, mktVars, impVars, prcVars, chkVars, storeVars, lateVars>>
notMktVars ==
    <<prices, preVars, pnlVars, impVars, prcVars, chkVars, storeVars, lateVars>>
notImpVars ==
    <<prices, preVars, pnlVars, mktVars, prcVars, chkVars, storeVars, lateVars>>
notPrcVars == <<preVars, pnlVars, mktVars, chkVars, storeVars, lateVars>>
notChkVars ==
    <<pos, order, pre_out, pre_again, pnlVars, mktVars, impVars, prcVars, storeVars,
      lateVars>>
\* The services' state, which the state containers leave alone.
serviceVars ==
    <<prices, preVars, pnlVars, mktVars, impVars, prcVars, chkVars, lateVars>>

----------------------------------------------------------------------------
(* Word sizes *)

UsdBits == 26
WideBits == 29
FpDigits == 1

I128Max == 2^(UsdBits - 1) - 1
I128Min == -I128Max - 1
U256Max == 2^WideBits - 1

Abs(x) == IF x < 0 THEN -x ELSE x
Max2(a, b) == IF a >= b THEN a ELSE b
Min2(a, b) == IF a <= b THEN a ELSE b

InI128(x) == I128Min <= x /\ x <= I128Max

\* Rust `/` on signed integers: truncation toward zero (b # 0).
TruncDiv(a, b) ==
    IF b > 0
    THEN (IF a >= 0 THEN a \div b ELSE -((-a) \div b))
    ELSE (IF a >= 0 THEN -(a \div (-b)) ELSE (-a) \div (-b))

\* Rust `%` on signed integers: remainder with the sign of the dividend.
TruncRem(a, b) == a - b * TruncDiv(a, b)

\* i128::checked_mul returns None: decided by division so that the product
\* itself is never formed out of range.
MulOverflows(a, b) ==
    IF a = 0 \/ b = 0 THEN FALSE
    ELSE IF (a > 0) = (b > 0)
         THEN Abs(a) > I128Max \div Abs(b)
         ELSE Abs(a) > (I128Max + 1) \div Abs(b)

\* i128::saturating_mul
saturating_mul(a, b) ==
    IF MulOverflows(a, b)
    THEN (IF (a > 0) = (b > 0) THEN I128Max ELSE I128Min)
    ELSE a * b

\* i128::saturating_add / saturating_sub
saturating_add(a, b) == Max2(I128Min, Min2(I128Max, a + b))
saturating_sub(a, b) == Max2(I128Min, Min2(I128Max, a - b))

----------------------------------------------------------------------------
(* risk/validation.rs *)

PreOk(d, w, f) ==
    [tag |-> "Ok", err |-> "", size_delta_usd |-> d, withdraw_tokens |-> w,
     is_full_close |-> f]
PreErr(e) ==
    [tag |-> "Err", err |-> e, size_delta_usd |-> 0, withdraw_tokens |-> 0,
     is_full_close |-> FALSE]
PrePanic ==
    [tag |-> "Panic", err |-> "", size_delta_usd |-> 0, withdraw_tokens |-> 0,
     is_full_close |-> FALSE]
PreNone ==
    [tag |-> "None", err |-> "", size_delta_usd |-> 0, withdraw_tokens |-> 0,
     is_full_close |-> FALSE]

\* "true" / "false", or "panic" where the source panics (expect, panic!).
will_position_collateral_be_sufficient_pre(next_size_usd, current_collateral_tokens, withdraw_tokens, p, r) ==
    IF withdraw_tokens > current_collateral_tokens THEN "false"
    ELSE IF p.collateral_price_min <= 0 THEN "panic"
    ELSE IF ~InI128(current_collateral_tokens - withdraw_tokens) THEN "panic"
    ELSE LET next_collateral_tokens == current_collateral_tokens - withdraw_tokens IN
         IF MulOverflows(next_collateral_tokens, p.collateral_price_min) THEN "panic"
         ELSE LET remaining_collateral_usd ==
                      next_collateral_tokens * p.collateral_price_min IN
              IF remaining_collateral_usd < r.min_collateral_usd THEN "false"
              ELSE IF MulOverflows(next_size_usd, r.min_collateral_factor_fp)
                   THEN "panic"
              ELSE IF r.factor_scale = 0 THEN "panic"
              ELSE IF next_size_usd * r.min_collateral_factor_fp = I128Min
                      /\ r.factor_scale = -1 THEN "panic"
              ELSE LET min_for_leverage ==
                           TruncDiv(next_size_usd * r.min_collateral_factor_fp,
                                    r.factor_scale) IN
                   IF remaining_collateral_usd >= min_for_leverage
                   THEN "true" ELSE "false"

\* Early returns without the sign check of the requested withdraw.
precheck_sanity_signed_withdraw(ps, o, p, r) ==
    IF ps.size_usd <= 0 \/ ps.size_tokens <= 0 THEN "position_empty_or_corrupted"
    ELSE IF ps.collateral_amount < 0 THEN "position_collateral_negative"
    ELSE IF p.collateral_price_min <= 0 THEN "invalid_collateral_price_min"
    ELSE IF r.factor_scale <= 0 THEN "invalid_factor_scale"
    ELSE IF o.size_delta_usd <= 0 THEN "size_delta_usd_must_be_positive"
    ELSE ""

\* Lines 19-36 and 48-50: the early returns; "" when none is taken.
precheck_sanity(ps, o, p, r) ==
    IF ps.size_usd <= 0 \/ ps.size_tokens <= 0 THEN "position_empty_or_corrupted"
    ELSE IF ps.collateral_amount < 0 THEN "position_collateral_negative"
    ELSE IF p.collateral_price_min <= 0 THEN "invalid_collateral_price_min"
    ELSE IF r.factor_scale <= 0 THEN "invalid_factor_scale"
    ELSE IF o.size_delta_usd <= 0 THEN "size_delta_usd_must_be_positive"
    ELSE IF o.withdraw_collateral_amount < 0
         THEN "withdraw_collateral_amount_must_be_non_negative"
    ELSE ""

\* Steps 1-3: clamp the size delta, determine full close, normalize and
\* clamp the withdraw.
precheck_normalize(ps, o) ==
    LET size_delta_usd == IF o.size_delta_usd > ps.size_usd
                          THEN ps.size_usd ELSE o.size_delta_usd
        is_full_close == (size_delta_usd = ps.size_usd)
        requested == IF is_full_close THEN 0 ELSE o.withdraw_collateral_amount
        withdraw_tokens == IF requested > ps.collateral_amount
                           THEN ps.collateral_amount ELSE requested
    IN [size_delta_usd |-> size_delta_usd, is_full_close |-> is_full_close,
        withdraw_tokens |-> withdraw_tokens,
        next_size_usd |-> ps.size_usd - size_delta_usd]

\* A dust check that compares the size delta, not the remainder, to the minimum.
precheck_dust_wrong_operand(ps, r, st) ==
    IF st.next_size_usd # 0 /\ st.size_delta_usd < r.min_position_size_usd
    THEN [size_delta_usd |-> ps.size_usd, is_full_close |-> TRUE,
          withdraw_tokens |-> 0, next_size_usd |-> 0]
    ELSE st

\* Step 4: the dust check.
precheck_dust(ps, r, st) ==
    IF st.next_size_usd # 0 /\ st.next_size_usd < r.min_position_size_usd
    THEN [size_delta_usd |-> ps.size_usd, is_full_close |-> TRUE,
          withdraw_tokens |-> 0, next_size_usd |-> 0]
    ELSE st

\* A guard whose last escalation forgets to raise is_full_close.
precheck_guard_stale_flag(ps, p, r, st) ==
    IF st.next_size_usd # 0
    THEN LET ok_with_withdraw == will_position_collateral_be_sufficient_pre(
                 st.next_size_usd, ps.collateral_amount, st.withdraw_tokens, p, r)
             ok_without_withdraw == will_position_collateral_be_sufficient_pre(
                 st.next_size_usd, ps.collateral_amount, 0, p, r)
         IN IF ok_with_withdraw = "panic" THEN PrePanic
            ELSE IF ok_with_withdraw = "true"
                 THEN PreOk(st.size_delta_usd, st.withdraw_tokens, st.is_full_close)
            ELSE IF ok_without_withdraw = "panic" THEN PrePanic
            ELSE IF ok_without_withdraw = "true"
                 THEN PreOk(st.size_delta_usd, 0, st.is_full_close)
            ELSE PreOk(ps.size_usd, 0, st.is_full_close)
    ELSE PreOk(st.size_delta_usd, 0, TRUE)

\* A guard that escalates to full close without retrying with withdraw = 0.
precheck_guard_no_retry(ps, p, r, st) ==
    IF st.next_size_usd # 0
    THEN LET ok_with_withdraw == will_position_collateral_be_sufficient_pre(
                 st.next_size_usd, ps.collateral_amount, st.withdraw_tokens, p, r)
         IN IF ok_with_withdraw = "panic" THEN PrePanic
            ELSE IF ok_with_withdraw = "true"
                 THEN PreOk(st.size_delta_usd, st.withdraw_tokens, st.is_full_close)
            ELSE PreOk(ps.size_usd, 0, TRUE)
    ELSE PreOk(st.size_delta_usd, 0, TRUE)

\* Step 5: the conservative pre-check of a partial close.
precheck_guard(ps, p, r, st) ==
    IF st.next_size_usd # 0
    THEN LET ok_with_withdraw == will_position_collateral_be_sufficient_pre(
                 st.next_size_usd, ps.collateral_amount, st.withdraw_tokens, p, r)
             ok_without_withdraw == will_position_collateral_be_sufficient_pre(
                 st.next_size_usd, ps.collateral_amount, 0, p, r)
         IN IF ok_with_withdraw = "panic" THEN PrePanic
            ELSE IF ok_with_withdraw = "true"
                 THEN PreOk(st.size_delta_usd, st.withdraw_tokens, st.is_full_close)
            ELSE IF ok_without_withdraw = "panic" THEN PrePanic
            ELSE IF ok_without_withdraw = "true"
                 THEN PreOk(st.size_delta_usd, 0, st.is_full_close)
            ELSE PreOk(ps.size_usd, 0, TRUE)
    ELSE PreOk(st.size_delta_usd, 0, TRUE)

precheck_decrease_and_withdraw(ps, o, p, r) ==
    IF precheck_sanity(ps, o, p, r) # ""
    THEN PreErr(precheck_sanity(ps, o, p, r))
    ELSE precheck_guard(ps, p, r, precheck_dust(ps, r, precheck_normalize(ps, o)))

----------------------------------------------------------------------------
(* Driver of the risk precheck: inputs are drawn in the initial state, the *)
(* precheck is applied, then applied again to its own outputs.             *)

PreSizeUsd == {0, 50, 100}
PreSizeTokens == {0, 1}
PreCollateral == {-1, 0, 5, 20, I128Max}
PreSizeDelta == {0, 30, 95, 100, 150}
PreWithdraw == {-1, 0, 3, 20, 30}
PreCollateralPriceMin == {0, 1, 2}
PreMinPositionSize == {0, 10}
PreMinCollateralUsd == {0, 5}
PreFactorFp == {1, 5}
PreFactorScale == {0, 10}

IdlePrecheck ==
    /\ pos = [size_usd |-> 0, size_tokens |-> 0, collateral_amount |-> 0]
    /\ order = [size_delta_usd |-> 0, withdraw_collateral_amount |-> 0]
    /\ risk = [min_position_size_usd |-> 0, min_collateral_usd |-> 0,
               min_collateral_factor_fp |-> 0, factor_scale |-> 1]
    /\ pre_out = PreNone
    /\ pre_again = PreNone

IdlePnl ==
    /\ pnl_usd = 0
    /\ pnl_out = [tag |-> "None", err |-> "", tokens |-> 0]

\* MarketState::default(): no open interest, no liquidity, indices at zero.
NewMarket ==
    [oi_long_usd |-> 0, oi_short_usd |-> 0, liquidity_usd |-> 0,
     funding |-> [cumulative_index_long |-> 0, cumulative_index_short |-> 0,
                  last_updated_at |-> 0],
     borrowing |-> [cumulative_factor |-> 0, last_updated_at |-> 0]]

NoPosition(sd) == [side |-> sd, size_usd |-> 0, funding_index |-> 0]
NoFee == [tag |-> "None", funding_fee_usd |-> 0]

IdleMarket ==
    /\ market = NewMarket
    /\ long_pos = NoPosition("Long")
    /\ short_pos = NoPosition("Short")
    /\ fee_long = NoFee
    /\ fee_short = NoFee

NoImpact == [tag |-> "None", price_impact_usd |-> 0, balance_was_improved |-> FALSE]

IdleImpact ==
    /\ oi = [current |-> [long_usd |-> 0, short_usd |-> 0],
             next |-> [long_usd |-> 0, short_usd |-> 0]]
    /\ cfg = [impact_exponent |-> 0,
              same_side_positive_factor_fp |-> 0, same_side_negative_factor_fp |-> 0,
              crossover_positive_factor_fp |-> 0, crossover_negative_factor_fp |-> 0]
    /\ impact_out = NoImpact

NoPricing ==
    [tag |-> "None", err |-> "", price_impact_usd |-> 0,
     price_impact_amount_tokens |-> 0,
     base_size_delta_tokens |-> 0, size_delta_tokens |-> 0, execution_price |-> 0,
     balance_was_improved |-> FALSE]

IdlePricing ==
    /\ params = [side |-> "Long", size_delta_usd |-> 0]
    /\ pricing_out = NoPricing

IdlePrices ==
    [index_price_min |-> 1, index_price_max |-> 1,
     collateral_price_min |-> 1, collateral_price_max |-> 1]

\* PoolBalances::new(): no entry; no call made yet.
PoolMarkets == {1, 2}
PoolAssets == {1, 2}
PoolKeys == PoolMarkets \X PoolAssets

\* HashMap<(MarketId, AssetId), TokenAmount>: the keys present and their amounts.
EmptyPool == [keys |-> {}, of |-> [k \in PoolKeys |-> 0]]

NoPoolCall ==
    [op |-> "none", market |-> 0, asset |-> 0, amount |-> 0, asset2 |-> 0,
     amount2 |-> 0, before |-> EmptyPool, tag |-> "None", err |-> "", taken |-> 0,
     taken2 |-> 0]

IdlePool ==
    /\ pool_balances = EmptyPool
    /\ pool_last = NoPoolCall
    /\ pool_ops = 0

ClaimAccounts == {1, 2}
ClaimAssets == {1, 2}
ClaimKeys == ClaimAccounts \X ClaimAssets

\* HashMap<(AccountId, AssetId), TokenAmount>: the keys present and their amounts.
EmptyLedger == [keys |-> {}, of |-> [k \in ClaimKeys |-> 0]]

\* Claimables::default()
NoClaimables == [funding |-> EmptyLedger, fees |-> EmptyLedger]

NoClaimCall ==
    [op |-> "none", account |-> 0, asset |-> 0, amount |-> 0,
     before |-> NoClaimables, tag |-> "None", err |-> "", value |-> 0]

NoListing == [tag |-> "None", account |-> 0, first |-> <<>>, second |-> <<>>]

IdleClaimables ==
    /\ claimables = NoClaimables
    /\ claim_last = NoClaimCall
    /\ claim_ops = 0
    /\ listing = NoListing

\* OrderStore::new()
NewOrderStore == [orders |-> {}, next_id |-> 0]

IdleOrders ==
    /\ order_store = NewOrderStore
    /\ created_ids = <<>>
    /\ removed_ids = {}
    /\ order_panic = FALSE

IdleStores == IdlePool /\ IdleClaimables /\ IdleOrders

NoPostcheck == [tag |-> "None", err |-> ""]

IdleCheck ==
    /\ pre_args = [next_size_usd |-> 0, current_collateral_tokens |-> 0,
                   withdraw_tokens |-> 0]
    /\ pos_after = [size_usd |-> 0, size_tokens |-> 0, collateral_amount |-> 0]
    /\ suff_out = "none"
    /\ post_out = NoPostcheck

IdleTwin == market_once = NewMarket

NoStepPosition ==
    [account |-> 1, collateral_token |-> 1, side |-> "Long", size_usd |-> 0,
     funding_index |-> 0]
NoStep ==
    [tag |-> "None", err |-> "", cost_usd |-> 0, fee_usd |-> 0,
     price |-> 0, pos_before |-> NoStepPosition,
     claimables_before |-> NoClaimables, retry |-> FALSE]

IdleStep ==
    /\ step_pos = NoStepPosition
    /\ step_out = NoStep
    /\ step_calls = 0

NoClose == [tag |-> "None", err |-> "", tokens |-> 0]

IdleClose ==
    /\ close_args = [side |-> "Long", size_usd |-> 0, size_tokens |-> 0,
                     size_delta_usd |-> 0, is_full_close |-> FALSE]
    /\ close_out = NoClose

NoStepFees ==
    [tag |-> "None", position_fee_usd |-> 0, position_fee_tokens |-> 0,
     liquidation_fee_usd |-> 0, liquidation_fee_tokens |-> 0]

IdleFees ==
    /\ fees_svc = [position_fee_bps_increase |-> 0, position_fee_bps_decrease |-> 0,
                   liquidation_fee_bps |-> 0, helpful_rebate_percent |-> 0]
    /\ fee_args = [order_type |-> "Increase", size_delta_usd |-> 0]
    /\ fees_out = [improved |-> NoStepFees, plain |-> NoStepFees]

IdleLate == IdleTwin /\ IdleStep /\ IdleClose /\ IdleFees

\* The state each driver gives to what it does not use.
IdleNotPrecheck ==
    /\ IdlePnl /\ IdleMarket /\ IdleImpact /\ IdlePricing /\ IdleCheck /\ IdleStores
    /\ IdleLate
IdleNotPnl ==
    /\ IdlePrecheck /\ IdleMarket /\ IdleImpact /\ IdlePricing /\ IdleCheck
    /\ IdleStores /\ IdleLate
IdleNotMarket ==
    /\ prices = IdlePrices
    /\ IdlePrecheck /\ IdlePnl /\ IdleImpact /\ IdlePricing /\ IdleCheck /\ IdleStores
    /\ IdleLate
IdleNotImpact ==
    /\ prices = IdlePrices
    /\ IdlePrecheck /\ IdlePnl /\ IdleMarket /\ IdlePricing /\ IdleCheck /\ IdleStores
    /\ IdleLate
IdleNotPricing ==
    IdlePrecheck /\ IdlePnl /\ IdleMarket /\ IdleCheck /\ IdleStores /\ IdleLate
IdleNotCheck ==
    /\ pos = [size_usd |-> 0, size_tokens |-> 0, collateral_amount |-> 0]
    /\ order = [size_delta_usd |-> 0, withdraw_collateral_amount |-> 0]
    /\ pre_out = PreNone
    /\ pre_again = PreNone
    /\ IdlePnl /\ IdleMarket /\ IdleImpact /\ IdlePricing /\ IdleStores
    /\ IdleLate
IdleServices ==
    /\ prices = IdlePrices
    /\ IdlePrecheck /\ IdlePnl /\ IdleMarket /\ IdleImpact /\ IdlePricing
    /\ IdleCheck /\ IdleLate

InitPrecheck ==
    /\ pc = "input"
    /\ pos \in [size_usd : PreSizeUsd, size_tokens : PreSizeTokens,
                collateral_amount : PreCollateral]
    /\ order \in [size_delta_usd : PreSizeDelta,
                  withdraw_collateral_amount : PreWithdraw]
    /\ prices \in [index_price_min : {1}, index_price_max : {1},
                   collateral_price_min : PreCollateralPriceMin,
                   collateral_price_max : {2}]
    /\ risk \in [min_position_size_usd : PreMinPositionSize,
                 min_collateral_usd : PreMinCollateralUsd,
                 min_collateral_factor_fp : PreFactorFp,
                 factor_scale : PreFactorScale]
    /\ pre_out = PreNone
    /\ pre_again = PreNone
    /\ overflow_checks = TRUE
    /\ IdleNotPrecheck

Precheck ==
    /\ pc = "input"
    /\ pre_out' = precheck_decrease_and_withdraw(pos, order, prices, risk)
    /\ pc' = "prechecked"
    /\ UNCHANGED <<pos, order, prices, risk, pre_again, overflow_checks, notPreVars>>

\* The caller feeds the normalized size delta and withdraw back.
PrecheckAgain ==
    /\ pc = "prechecked"
    /\ pre_out.tag = "Ok"
    /\ pre_again' = precheck_decrease_and_withdraw(
                        pos,
                        [size_delta_usd |-> pre_out.size_delta_usd,
                         withdraw_collateral_amount |-> pre_out.withdraw_tokens],
                        prices, risk)
    /\ pc' = "rechecked"
    /\ UNCHANGED <<pos, order, prices, risk, pre_out, overflow_checks, notPreVars>>

NextPrecheck == Precheck \/ PrecheckAgain

SpecPrecheck == InitPrecheck /\ [][NextPrecheck]_vars

\* C1: precheck idempotence: when the precheck returns Ok((d, w, f)), the
\* precheck of the same position, prices and risk config with size_delta_usd = d
\* and withdraw_collateral_amount = w returns Ok((d, w, f)) again.
C1_PrecheckIdempotent ==
    pc = "rechecked" => pre_again = pre_out

\* A partial close whose requested withdraw was dropped to 0 has been fed back.
C1_Witness ==
    /\ pc = "rechecked"
    /\ pre_out.tag = "Ok"
    /\ ~pre_out.is_full_close
    /\ order.withdraw_collateral_amount > 0
    /\ pre_out.withdraw_tokens = 0
    /\ pre_again = pre_out

\* C2: dust escalation: for a valid position and an order with
\* size_delta_usd > 0 and withdraw >= 0, when 0 < size_usd - size_delta_usd <
\* min_position_size_usd the precheck returns exactly (size_usd, 0, true).
C2_DustEscalation ==
    ( /\ pc # "input"
      /\ pos.size_usd > 0 /\ pos.size_tokens > 0 /\ pos.collateral_amount >= 0
      /\ prices.collateral_price_min > 0 /\ risk.factor_scale > 0
      /\ order.size_delta_usd > 0 /\ order.withdraw_collateral_amount >= 0
      /\ 0 < pos.size_usd - order.size_delta_usd
      /\ pos.size_usd - order.size_delta_usd < risk.min_position_size_usd )
    => pre_out = PreOk(pos.size_usd, 0, TRUE)

\* A dust remainder with a non-zero withdraw request has been prechecked.
C2_Witness ==
    /\ pc = "prechecked"
    /\ pos.size_usd = 100 /\ order.size_delta_usd = 95
    /\ risk.min_position_size_usd = 10
    /\ order.withdraw_collateral_amount > 0
    /\ pos.collateral_amount >= order.withdraw_collateral_amount
    /\ pre_out = PreOk(100, 0, TRUE)

----------------------------------------------------------------------------
(* math/rounding.rs, math/pnl.rs *)

NumOk(v) == [tag |-> "Ok", err |-> "", tokens |-> v]
NumErr(e) == [tag |-> "Err", err |-> e, tokens |-> 0]
NumPanic == [tag |-> "Panic", err |-> "", tokens |-> 0]

\* A ceiling division that drops the remainder.
div_ceil_u_drops_remainder(a, b) ==
    IF a < 0 \/ b <= 0 THEN NumErr("div_ceil_invalid")
    ELSE NumOk(a \div b)

div_ceil_u(a, b) ==
    IF a < 0 \/ b <= 0 THEN NumErr("div_ceil_invalid")
    ELSE LET q == TruncDiv(a, b)
             r == TruncRem(a, b)
         IN NumOk(IF r = 0 THEN q ELSE q + 1)

div_floor_u(a, b) ==
    IF a < 0 \/ b <= 0 THEN NumErr("div_floor_invalid")
    ELSE NumOk(TruncDiv(a, b))

\* `-x` on i128: only i128::MIN overflows; the debug build panics, the release
\* build wraps back to i128::MIN.
NegOverflows(x) == x = I128Min
wrapping_neg(x) == IF x = I128Min THEN I128Min ELSE -x

pnl_usd_to_collateral_tokens(pnl, p, checks) ==
    IF pnl = 0 THEN NumOk(0)
    ELSE IF pnl > 0
    THEN (IF p.collateral_price_max <= 0 THEN NumErr("invalid_collateral_price_max")
          ELSE div_floor_u(pnl, p.collateral_price_max))
    ELSE (IF p.collateral_price_min <= 0 THEN NumErr("invalid_collateral_price_min")
          ELSE IF NegOverflows(pnl) /\ checks THEN NumPanic
          ELSE LET c == div_ceil_u(wrapping_neg(pnl), p.collateral_price_min) IN
               IF c.tag = "Ok" THEN NumOk(-c.tokens) ELSE c)

(* Driver of the PnL conversion. *)

MaxPnl == 7
PnlUsdSet == (-MaxPnl .. MaxPnl) \cup {I128Min, -I128Max, I128Max}
PnlCollateralPrice == {0, 1, 2, 3, 5}

InitPnl ==
    /\ pc = "input"
    /\ pnl_usd \in PnlUsdSet
    /\ prices \in [index_price_min : {1}, index_price_max : {1},
                   collateral_price_min : PnlCollateralPrice,
                   collateral_price_max : PnlCollateralPrice]
    /\ overflow_checks \in BOOLEAN
    /\ pnl_out = [tag |-> "None", err |-> "", tokens |-> 0]
    /\ IdleNotPnl

ConvertPnl ==
    /\ pc = "input"
    /\ pnl_out' = pnl_usd_to_collateral_tokens(pnl_usd, prices, overflow_checks)
    /\ pc' = "converted"
    /\ UNCHANGED <<prices, overflow_checks, pnl_usd, notPnlVars>>

NextPnl == ConvertPnl

SpecPnl == InitPnl /\ [][NextPnl]_vars

\* C3: pool-favoring PnL conversion: with positive collateral prices, a profit
\* p > 0 converts to tokens worth at most p at collateral_price_max, a loss of
\* p > 0 converts to tokens worth at least p at collateral_price_min, and a
\* PnL of 0 converts to 0.
C3_PoolFavoringPnl ==
    ( /\ pc = "converted"
      /\ prices.collateral_price_min > 0 /\ prices.collateral_price_max > 0
      /\ pnl_usd # I128Min )
    => /\ pnl_out.tag = "Ok"
       /\ pnl_usd > 0 => /\ pnl_out.tokens >= 0
                         /\ pnl_out.tokens * prices.collateral_price_max <= pnl_usd
       /\ pnl_usd < 0 => /\ pnl_out.tokens <= 0
                         /\ (-pnl_out.tokens) * prices.collateral_price_min >= -pnl_usd
       /\ pnl_usd = 0 => pnl_out.tokens = 0

\* A loss that is not a multiple of the price has been converted, rounding up.
C3_Witness ==
    /\ pc = "converted"
    /\ pnl_usd = -7 /\ prices.collateral_price_min = 2
    /\ prices.collateral_price_max > 0
    /\ pnl_out = NumOk(-4)

----------------------------------------------------------------------------
(* services/funding.rs *)

FUNDING_INDEX_SCALE == 1000000
rate_abs_fp_per_sec == 10

\* Two's-complement wrap of an out-of-range i128 result (release build).
WrapI128(x) == ((x - I128Min) % (2 * (I128Max + 1))) + I128Min

current_index_for_side(m, sd) ==
    IF sd = "Long" THEN m.funding.cumulative_index_long
    ELSE m.funding.cumulative_index_short

\* An update whose short-heavy branch forgets the short index.
update_indices_one_sided(m, now, checks) ==
    LET funding == m.funding
        dt == now - funding.last_updated_at
        long_oi == Max2(m.oi_long_usd, 0)
        short_oi == Max2(m.oi_short_usd, 0)
        total_oi == WrapI128(long_oi + short_oi)
        imbalance == long_oi - short_oi
        delta_index_fp == rate_abs_fp_per_sec * dt
    IN IF funding.last_updated_at = 0
       THEN [panic |-> FALSE, market |-> [m EXCEPT !.funding.last_updated_at = now]]
       ELSE IF now <= funding.last_updated_at
       THEN [panic |-> FALSE, market |-> m]
       ELSE IF ~InI128(long_oi + short_oi) /\ checks
       THEN [panic |-> TRUE, market |-> m]
       ELSE IF total_oi = 0
       THEN [panic |-> FALSE, market |-> [m EXCEPT !.funding.last_updated_at = now]]
       ELSE IF imbalance > 0
       THEN [panic |-> FALSE,
             market |-> [m EXCEPT
                !.funding.cumulative_index_long =
                    saturating_add(funding.cumulative_index_long, delta_index_fp),
                !.funding.cumulative_index_short =
                    saturating_sub(funding.cumulative_index_short, delta_index_fp),
                !.funding.last_updated_at = now]]
       ELSE IF imbalance < 0
       THEN [panic |-> FALSE,
             market |-> [m EXCEPT
                !.funding.cumulative_index_long =
                    saturating_sub(funding.cumulative_index_long, delta_index_fp),
                !.funding.last_updated_at = now]]
       ELSE [panic |-> FALSE, market |-> [m EXCEPT !.funding.last_updated_at = now]]

\* The market after update_indices(market, now); panic = TRUE where the debug
\* build aborts on `long_oi + short_oi` before anything is written.
update_indices(m, now, checks) ==
    LET funding == m.funding
        dt == now - funding.last_updated_at
        long_oi == Max2(m.oi_long_usd, 0)
        short_oi == Max2(m.oi_short_usd, 0)
        total_oi == WrapI128(long_oi + short_oi)
        imbalance == long_oi - short_oi
        delta_index_fp == rate_abs_fp_per_sec * dt
    IN IF funding.last_updated_at = 0
       THEN [panic |-> FALSE, market |-> [m EXCEPT !.funding.last_updated_at = now]]
       ELSE IF now <= funding.last_updated_at
       THEN [panic |-> FALSE, market |-> m]
       ELSE IF ~InI128(long_oi + short_oi) /\ checks
       THEN [panic |-> TRUE, market |-> m]
       ELSE IF total_oi = 0
       THEN [panic |-> FALSE, market |-> [m EXCEPT !.funding.last_updated_at = now]]
       ELSE IF imbalance > 0
       THEN [panic |-> FALSE,
             market |-> [m EXCEPT
                !.funding.cumulative_index_long =
                    saturating_add(funding.cumulative_index_long, delta_index_fp),
                !.funding.cumulative_index_short =
                    saturating_sub(funding.cumulative_index_short, delta_index_fp),
                !.funding.last_updated_at = now]]
       ELSE IF imbalance < 0
       THEN [panic |-> FALSE,
             market |-> [m EXCEPT
                !.funding.cumulative_index_long =
                    saturating_sub(funding.cumulative_index_long, delta_index_fp),
                !.funding.cumulative_index_short =
                    saturating_add(funding.cumulative_index_short, delta_index_fp),
                !.funding.last_updated_at = now]]
       ELSE [panic |-> FALSE, market |-> [m EXCEPT !.funding.last_updated_at = now]]

FeeOk(fee) == [tag |-> "Ok", funding_fee_usd |-> fee]
FeePanic == [tag |-> "Panic", funding_fee_usd |-> 0]

\* A settlement that divides with floor instead of truncation toward zero.
settle_position_funding_floor(m, ps, checks) ==
    LET current_idx == current_index_for_side(m, ps.side)
        delta_idx == WrapI128(current_idx - ps.funding_index)
    IN IF ~InI128(current_idx - ps.funding_index) /\ checks
       THEN [delta |-> FeePanic, pos |-> ps]
       ELSE [delta |-> FeeOk(IF delta_idx = 0 \/ ps.size_usd = 0 THEN 0
                             ELSE saturating_mul(ps.size_usd, delta_idx)
                                      \div FUNDING_INDEX_SCALE),
             pos |-> [ps EXCEPT !.funding_index = current_idx]]

\* settle_position_funding(market, pos): the FundingDelta returned and the
\* position with its snapshot advanced.
settle_position_funding(m, ps, checks) ==
    LET current_idx == current_index_for_side(m, ps.side)
        delta_idx == WrapI128(current_idx - ps.funding_index)
    IN IF ~InI128(current_idx - ps.funding_index) /\ checks
       THEN [delta |-> FeePanic, pos |-> ps]
       ELSE [delta |-> FeeOk(IF delta_idx = 0 \/ ps.size_usd = 0 THEN 0
                             ELSE TruncDiv(saturating_mul(ps.size_usd, delta_idx),
                                           FUNDING_INDEX_SCALE)),
             pos |-> [ps EXCEPT !.funding_index = current_idx]]

(* Driver of the funding service: the host changes the open interest, the  *)
(* indices are advanced to arbitrary timestamps, a long and a short of     *)
(* equal size are opened at the current indices and settled.               *)

MaxTime == 4
Timestamps == 0 .. MaxTime
FundingOi == {-100, 0, 100, I128Max}
FundingSize == {0, 150000, 1000000, I128Max}

InitFunding ==
    /\ pc = "idle"
    /\ market = NewMarket
    /\ long_pos = NoPosition("Long")
    /\ short_pos = NoPosition("Short")
    /\ fee_long = NoFee
    /\ fee_short = NoFee
    /\ overflow_checks \in BOOLEAN
    /\ IdleNotMarket

SetOpenInterest(l, s) ==
    /\ market' = [market EXCEPT !.oi_long_usd = l, !.oi_short_usd = s]
    /\ UNCHANGED <<pc, overflow_checks, notMktVars,
                   long_pos, short_pos, fee_long, fee_short>>

UpdateIndices(now) ==
    /\ market' = update_indices(market, now, overflow_checks).market
    /\ UNCHANGED <<pc, overflow_checks, notMktVars,
                   long_pos, short_pos, fee_long, fee_short>>

OpenPair(size) ==
    /\ long_pos' = [side |-> "Long", size_usd |-> size,
                    funding_index |-> market.funding.cumulative_index_long]
    /\ short_pos' = [side |-> "Short", size_usd |-> size,
                     funding_index |-> market.funding.cumulative_index_short]
    /\ fee_long' = NoFee
    /\ fee_short' = NoFee
    /\ pc' = "open"
    /\ UNCHANGED <<market, overflow_checks, notMktVars>>

SettlePair ==
    /\ pc \in {"open", "settled"}
    /\ LET l == settle_position_funding(market, long_pos, overflow_checks)
           sh == settle_position_funding(market, short_pos, overflow_checks)
       IN /\ long_pos' = l.pos
          /\ short_pos' = sh.pos
          /\ fee_long' = l.delta
          /\ fee_short' = sh.delta
    /\ pc' = "settled"
    /\ UNCHANGED <<market, overflow_checks, notMktVars>>

NextFunding ==
    \/ \E l \in FundingOi, s \in FundingOi : SetOpenInterest(l, s)
    \/ \E now \in Timestamps : UpdateIndices(now)
    \/ \E size \in FundingSize : OpenPair(size)
    \/ SettlePair

SpecFunding == InitFunding /\ [][NextFunding]_vars

\* C4: funding conservation: a long and a short of equal size_usd whose
\* snapshots equal the market's indices settle, after any sequence of
\* update_indices calls, to fees that are exact negatives of each other.
C4_FundingConservation ==
    pc = "settled" =>
        /\ fee_long.tag = "Ok" /\ fee_short.tag = "Ok"
        /\ fee_long.funding_fee_usd = -fee_short.funding_fee_usd

\* A pair has settled a fee that truncation rounded: 150000 * 10 / 10^6.
C4_Witness ==
    /\ pc = "settled"
    /\ long_pos.size_usd = 150000
    /\ fee_long.tag = "Ok" /\ fee_short.tag = "Ok"
    /\ fee_long.funding_fee_usd = 1
    /\ fee_short.funding_fee_usd = -1

----------------------------------------------------------------------------
(* services/borrowing.rs *)

BORROW_INDEX_SCALE == 1000000
base_rate_fp_per_sec == 5
slope_fp_per_sec == 20

\* A utilization that forgets to clamp the borrowed amount at zero.
compute_utilization_fp_unclamped(m) ==
    LET borrowed == WrapI128(m.oi_long_usd + m.oi_short_usd)
        liquidity == Max2(m.liquidity_usd, 0)
    IN IF liquidity = 0 THEN 0
       ELSE Min2(TruncDiv(saturating_mul(borrowed, BORROW_INDEX_SCALE), liquidity),
                 BORROW_INDEX_SCALE)

\* Utilization in [0, 1] * BORROW_INDEX_SCALE (the sum has wrapped where the
\* release build wraps it).
compute_utilization_fp(m) ==
    LET borrowed == Max2(WrapI128(m.oi_long_usd + m.oi_short_usd), 0)
        liquidity == Max2(m.liquidity_usd, 0)
    IN IF liquidity = 0 THEN 0
       ELSE Min2(TruncDiv(saturating_mul(borrowed, BORROW_INDEX_SCALE), liquidity),
                 BORROW_INDEX_SCALE)

\* An update_index that advances the factor and forgets to write
\* last_updated_at.
update_index_keeps_time(m, now, checks) ==
    LET dt == now - m.borrowing.last_updated_at
        util_fp == compute_utilization_fp(m)
        rate_per_sec_fp ==
            saturating_add(base_rate_fp_per_sec,
                           TruncDiv(saturating_mul(slope_fp_per_sec, util_fp),
                                    BORROW_INDEX_SCALE))
        delta_index_fp == saturating_mul(rate_per_sec_fp, dt)
    IN IF m.borrowing.last_updated_at = 0
       THEN [panic |-> FALSE, market |-> [m EXCEPT !.borrowing.last_updated_at = now]]
       ELSE IF now <= m.borrowing.last_updated_at
       THEN [panic |-> FALSE, market |-> m]
       ELSE IF ~InI128(m.oi_long_usd + m.oi_short_usd) /\ checks
       THEN [panic |-> TRUE, market |-> m]
       ELSE [panic |-> FALSE,
             market |-> [m EXCEPT
                !.borrowing.cumulative_factor =
                    saturating_add(m.borrowing.cumulative_factor, delta_index_fp)]]

\* The market after update_index(market, now); panic = TRUE where the debug
\* build aborts on `oi_long_usd + oi_short_usd` before anything is written.
update_index(m, now, checks) ==
    LET dt == now - m.borrowing.last_updated_at
        util_fp == compute_utilization_fp(m)
        rate_per_sec_fp ==
            saturating_add(base_rate_fp_per_sec,
                           TruncDiv(saturating_mul(slope_fp_per_sec, util_fp),
                                    BORROW_INDEX_SCALE))
        delta_index_fp == saturating_mul(rate_per_sec_fp, dt)
    IN IF m.borrowing.last_updated_at = 0
       THEN [panic |-> FALSE, market |-> [m EXCEPT !.borrowing.last_updated_at = now]]
       ELSE IF now <= m.borrowing.last_updated_at
       THEN [panic |-> FALSE, market |-> m]
       ELSE IF ~InI128(m.oi_long_usd + m.oi_short_usd) /\ checks
       THEN [panic |-> TRUE, market |-> m]
       ELSE [panic |-> FALSE,
             market |-> [m EXCEPT
                !.borrowing.cumulative_factor =
                    saturating_add(m.borrowing.cumulative_factor, delta_index_fp),
                !.borrowing.last_updated_at = now]]

(* Driver of the borrowing service: the host changes open interest and     *)
(* liquidity, the index is advanced to arbitrary timestamps.               *)

BorrowOi == {-100, 0, 1, 3, I128Max}
BorrowLiquidity == {-5, 0, 1, 4, 8}

InitBorrowing ==
    /\ pc = "idle"
    /\ IdleMarket
    /\ overflow_checks \in BOOLEAN
    /\ IdleNotMarket

SetUtilization(l, s, q) ==
    /\ market' = [market EXCEPT !.oi_long_usd = l, !.oi_short_usd = s,
                                !.liquidity_usd = q]
    /\ UNCHANGED <<pc, overflow_checks, notMktVars,
                   long_pos, short_pos, fee_long, fee_short>>

\* pc records that update_index has been called on the market.
UpdateIndex(now) ==
    /\ market' = update_index(market, now, overflow_checks).market
    /\ pc' = "called"
    /\ UNCHANGED <<overflow_checks, notMktVars,
                   long_pos, short_pos, fee_long, fee_short>>

NextBorrowing ==
    \/ \E l \in BorrowOi, s \in BorrowOi, q \in BorrowLiquidity : SetUtilization(l, s, q)
    \/ \E now \in Timestamps : UpdateIndex(now)

SpecBorrowing == InitBorrowing /\ [][NextBorrowing]_vars

\* C5: borrowing monotonicity: over any sequence of update_index calls, with
\* any open interest and liquidity between them, cumulative_factor never
\* decreases and borrowing.last_updated_at never decreases.
C5_BorrowingMonotone ==
    [][ /\ market'.borrowing.cumulative_factor >= market.borrowing.cumulative_factor
        /\ market'.borrowing.last_updated_at >= market.borrowing.last_updated_at ]_vars

\* The factor has advanced at a utilization-dependent rate: 2 s at 5 + 20/2.
C5_Witness ==
    /\ market.borrowing.cumulative_factor = 30
    /\ market.borrowing.last_updated_at = 3
    /\ market.oi_long_usd + market.oi_short_usd = 4
    /\ market.liquidity_usd = 8

----------------------------------------------------------------------------
(* services/price_impact.rs *)

fp_scale == 10^FpDigits

\* U256::saturating_mul
u256_saturating_mul(a, b) ==
    IF a = 0 \/ b = 0 THEN 0
    ELSE IF a > U256Max \div b THEN U256Max
    ELSE a * b

abs_diff(a, b) == IF a >= b THEN a - b ELSE b - a

\* The loop of pow_u256: square-and-multiply with saturating products.
RECURSIVE pow_u256_loop(_, _, _)
pow_u256_loop(x, exp, result) ==
    IF exp = 0 THEN result
    ELSE pow_u256_loop(u256_saturating_mul(x, x), exp \div 2,
                       IF exp % 2 = 1 THEN u256_saturating_mul(result, x) ELSE result)

pow_u256(x, exp) == IF exp = 0 THEN 1 ELSE pow_u256_loop(x, exp, 1)

\* from_fp_to_usd_saturating: the quotient by the scale, then the low 16 bytes
\* of its big-endian form read as a two's-complement i128.
from_fp_to_usd_saturating(v_fp) ==
    LET q == v_fp \div fp_scale
        low == q % (2 * (I128Max + 1))
    IN IF low > I128Max THEN low - 2 * (I128Max + 1) ELSE low

\* An improvement test that also counts an unchanged imbalance.
is_balance_improved_or_equal(initial_diff, next_diff) == next_diff <= initial_diff

\* Line 122: did the imbalance shrink?
is_balance_improved(initial_diff, next_diff) == next_diff < initial_diff

\* usd_to_u256 asserts on a negative open interest.
impact_input_panics(o) ==
    \/ o.current.long_usd < 0 \/ o.current.short_usd < 0
    \/ o.next.long_usd < 0 \/ o.next.short_usd < 0

is_same_side_rebalance(o) ==
    (o.current.long_usd <= o.current.short_usd) = (o.next.long_usd <= o.next.short_usd)

\* Lines 117-171: the fixed-point magnitude, its sign and the improved flag.
impact_magnitude(o, c) ==
    LET initial_diff == abs_diff(o.current.long_usd, o.current.short_usd)
        next_diff == abs_diff(o.next.long_usd, o.next.short_usd)
        balance_was_improved == is_balance_improved(initial_diff, next_diff)
        d0e == pow_u256(initial_diff, c.impact_exponent)
        d1e == pow_u256(next_diff, c.impact_exponent)
        factor_fp == IF balance_was_improved THEN c.same_side_positive_factor_fp
                     ELSE c.same_side_negative_factor_fp
        term0 == u256_saturating_mul(d0e, c.crossover_positive_factor_fp)
        term1 == u256_saturating_mul(d1e, c.crossover_negative_factor_fp)
    IN IF is_same_side_rebalance(o)
       THEN [mag_fp |-> u256_saturating_mul(abs_diff(d0e, d1e), factor_fp),
             negative |-> ~(d0e >= d1e),
             balance_was_improved |-> balance_was_improved]
       ELSE [mag_fp |-> abs_diff(term0, term1),
             negative |-> ~(term0 >= term1),
             balance_was_improved |-> balance_was_improved]

ImpactOk(usd, improved) ==
    [tag |-> "Ok", price_impact_usd |-> usd, balance_was_improved |-> improved]
ImpactPanic == [tag |-> "Panic", price_impact_usd |-> 0, balance_was_improved |-> FALSE]

get_price_impact_usd(o, c, checks) ==
    IF impact_input_panics(o) THEN ImpactPanic
    ELSE LET m == impact_magnitude(o, c)
             impact_usd == from_fp_to_usd_saturating(m.mag_fp)
         IN IF ~m.negative THEN ImpactOk(impact_usd, m.balance_was_improved)
            ELSE IF NegOverflows(impact_usd) /\ checks THEN ImpactPanic
            ELSE ImpactOk(wrapping_neg(impact_usd), m.balance_was_improved)

(* Driver of the price-impact curve. *)

ImpactOi == {-1, 0, 3, 5, 8, I128Max}
ImpactExponent == {1, 2, 3}
SamePositiveFactor == {0, 1, 10}
SameNegativeFactor == {0, 40}
CrossPositiveFactor == {5}
CrossNegativeFactor == {20}

OiSnapshots == [long_usd : ImpactOi, short_usd : ImpactOi]

InitImpact ==
    /\ pc = "input"
    /\ oi \in [current : OiSnapshots, next : OiSnapshots]
    /\ cfg \in [impact_exponent : ImpactExponent,
                same_side_positive_factor_fp : SamePositiveFactor,
                same_side_negative_factor_fp : SameNegativeFactor,
                crossover_positive_factor_fp : CrossPositiveFactor,
                crossover_negative_factor_fp : CrossNegativeFactor]
    /\ impact_out = NoImpact
    /\ overflow_checks \in BOOLEAN
    /\ IdleNotImpact

ComputeImpact ==
    /\ pc = "input"
    /\ impact_out' = get_price_impact_usd(oi, cfg, overflow_checks)
    /\ pc' = "computed"
    /\ UNCHANGED <<oi, cfg, overflow_checks, notImpVars>>

NextImpact == ComputeImpact

SpecImpact == InitImpact /\ [][NextImpact]_vars

InitialDiff == abs_diff(oi.current.long_usd, oi.current.short_usd)
NextDiff == abs_diff(oi.next.long_usd, oi.next.short_usd)

\* C6: impact sign discipline: on the same-side branch a trade that shrinks
\* |long - short| has price_impact_usd >= 0 with balance_was_improved = true and
\* a trade that grows it has price_impact_usd <= 0 with balance_was_improved =
\* false.
C6_SignDiscipline ==
    (pc = "computed" /\ impact_out.tag = "Ok" /\ is_same_side_rebalance(oi))
    => /\ NextDiff < InitialDiff =>
              impact_out.price_impact_usd >= 0 /\ impact_out.balance_was_improved
       /\ NextDiff > InitialDiff =>
              impact_out.price_impact_usd <= 0 /\ ~impact_out.balance_was_improved

\* C7: the fixed-point reduction saturates: the magnitude of price_impact_usd
\* is min(floor(mag_fp / scale), i128::MAX), with the sign of the branch.
C7_ReductionSaturates ==
    (pc = "computed" /\ impact_out.tag = "Ok")
    => LET m == impact_magnitude(oi, cfg)
           sat == Min2(m.mag_fp \div fp_scale, I128Max)
       IN impact_out.price_impact_usd = (IF m.negative THEN -sat ELSE sat)

\* C8: impact monotonicity: with config and initial OI fixed, of two helpful
\* same-side trades with next imbalances d1' <= d1 < d0, the larger move (d1')
\* has at least the absolute impact of the smaller (d1).
C8_HelpfulMonotone ==
    ( /\ pc = "computed" /\ impact_out.tag = "Ok"
      /\ is_same_side_rebalance(oi) /\ NextDiff < InitialDiff )
    => \A n \in OiSnapshots :
          LET other == [current |-> oi.current, next |-> n]
              res == get_price_impact_usd(other, cfg, overflow_checks)
          IN ( /\ res.tag = "Ok" /\ is_same_side_rebalance(other)
               /\ abs_diff(n.long_usd, n.short_usd) <= NextDiff )
             => Abs(res.price_impact_usd) >= Abs(impact_out.price_impact_usd)

\* C9: no-op impact: when next OI equals current OI (any non-negative values,
\* balanced or not, any config) get_price_impact_usd returns impact 0 and
\* balance_was_improved = false.
C9_NoOpImpact ==
    (pc = "computed" /\ oi.next = oi.current /\ ~impact_input_panics(oi))
    => impact_out = ImpactOk(0, FALSE)

\* An unbalanced market with unchanged OI has been priced under non-zero factors.
C9_Witness ==
    /\ pc = "computed"
    /\ oi.next = oi.current
    /\ oi.current.long_usd = 8 /\ oi.current.short_usd = 3
    /\ cfg.same_side_positive_factor_fp = 10
    /\ cfg.same_side_negative_factor_fp = 40
    /\ impact_out = ImpactOk(0, FALSE)

----------------------------------------------------------------------------
(* services/pricing.rs *)

PricingOk(impact, impact_tokens, base, tokens, price, improved) ==
    [tag |-> "Ok", err |-> "", price_impact_usd |-> impact,
     price_impact_amount_tokens |-> impact_tokens, base_size_delta_tokens |-> base,
     size_delta_tokens |-> tokens, execution_price |-> price,
     balance_was_improved |-> improved]
PricingErr(e) == [NoPricing EXCEPT !.tag = "Err", !.err = e]
PricingPanic == [NoPricing EXCEPT !.tag = "Panic"]

\* Step 2: price_impact_usd -> tokens; positive impact floors at
\* index_price_max, negative impact ceils its absolute value at
\* index_price_min.  panic = TRUE where a negation overflows in the debug build.
price_impact_amount_tokens(price_impact_usd, p, checks) ==
    IF price_impact_usd > 0
    THEN [panic |-> FALSE,
          tokens |-> IF p.index_price_max > 0
                     THEN TruncDiv(price_impact_usd, p.index_price_max) ELSE 0]
    ELSE IF price_impact_usd < 0 /\ p.index_price_min > 0
    THEN LET abs == wrapping_neg(price_impact_usd)
             q == TruncDiv(abs, p.index_price_min)
             r == TruncRem(abs, p.index_price_min)
             ceil == IF r = 0 THEN q ELSE q + 1
         IN [panic |-> checks /\ (NegOverflows(price_impact_usd) \/ NegOverflows(ceil)),
             tokens |-> wrapping_neg(ceil)]
    ELSE [panic |-> FALSE, tokens |-> 0]

\* Step 3: tokens without price impact; "ZeroSizeDelta" when the price picked
\* for the side is not positive.
base_size_delta_tokens(sd, size, p) ==
    IF sd = "Long"
    THEN (IF p.index_price_max > 0
          THEN NumOk(TruncDiv(size, p.index_price_max))
          ELSE NumErr("ZeroSizeDelta"))
    ELSE (IF p.index_price_min > 0
          THEN LET q == TruncDiv(size, p.index_price_min)
                   r == TruncRem(size, p.index_price_min)
               IN NumOk(IF r = 0 THEN q ELSE q + 1)
          ELSE NumErr("ZeroSizeDelta"))

\* A combination that applies the impact with the sign of the other side.
combine_size_delta_tokens_swapped(sd, base, impact_tokens) ==
    IF sd = "Long" THEN base - impact_tokens ELSE base + impact_tokens

\* Step 4: long adds the impact tokens, short subtracts them (unwrapped sum).
combine_size_delta_tokens(sd, base, impact_tokens) ==
    IF sd = "Long" THEN base + impact_tokens ELSE base - impact_tokens

get_execution_price_for_increase(o, c, pr, p, checks) ==
    IF pr.size_delta_usd = 0
    THEN PricingOk(0, 0, 0, 0,
                   IF pr.side = "Long" THEN p.index_price_max ELSE p.index_price_min,
                   FALSE)
    ELSE LET impact == get_price_impact_usd(o, c, checks)
             amount == price_impact_amount_tokens(impact.price_impact_usd, p, checks)
             base == base_size_delta_tokens(pr.side, pr.size_delta_usd, p)
             sum == combine_size_delta_tokens(pr.side, base.tokens, amount.tokens)
             tokens == WrapI128(sum)
         IN IF impact.tag = "Panic" \/ amount.panic THEN PricingPanic
            ELSE IF base.tag = "Err" THEN PricingErr(base.err)
            ELSE IF ~InI128(sum) /\ checks THEN PricingPanic
            ELSE IF tokens < 0 THEN PricingErr("PriceImpactLargerThanOrderSize")
            ELSE IF tokens = 0 THEN PricingErr("ZeroSizeTokensAfterImpact")
            ELSE PricingOk(impact.price_impact_usd, amount.tokens, base.tokens, tokens,
                           TruncDiv(pr.size_delta_usd, tokens),
                           impact.balance_was_improved)

(* Driver of the pricing service. *)

PricingOi == {0, 2, 5, 9, (I128Max + 1) \div 2, I128Max}
PricingSizeDelta == {-4, 0, 1, 5, 7, 10, 25}
PricingIndexPrices == {<<0, 0>>, <<1, 1>>, <<2, 3>>, <<3, 3>>, <<3, 4>>}
PricingSnapshots == [long_usd : PricingOi, short_usd : PricingOi]

InitPricing ==
    /\ pc = "input"
    /\ oi \in [current : PricingSnapshots, next : PricingSnapshots]
    /\ cfg \in [impact_exponent : {1, 2},
                same_side_positive_factor_fp : {10},
                same_side_negative_factor_fp : {40},
                crossover_positive_factor_fp : CrossPositiveFactor,
                crossover_negative_factor_fp : CrossNegativeFactor]
    /\ params \in [side : {"Long", "Short"}, size_delta_usd : PricingSizeDelta]
    /\ \E ip \in PricingIndexPrices :
          prices = [index_price_min |-> ip[1], index_price_max |-> ip[2],
                    collateral_price_min |-> 1, collateral_price_max |-> 1]
    /\ overflow_checks \in BOOLEAN
    /\ impact_out = NoImpact
    /\ pricing_out = NoPricing
    /\ IdleNotPricing

PriceIncrease ==
    /\ pc = "input"
    /\ impact_out' = IF params.size_delta_usd = 0 THEN impact_out
                     ELSE get_price_impact_usd(oi, cfg, overflow_checks)
    /\ pricing_out' = get_execution_price_for_increase(oi, cfg, params, prices,
                                                       overflow_checks)
    /\ pc' = "priced"
    /\ UNCHANGED <<oi, cfg, params, prices, overflow_checks, notPrcVars>>

NextPricing == PriceIncrease

SpecPricing == InitPricing /\ [][NextPricing]_vars

HelpfulLongPriced ==
    /\ pc = "priced"
    /\ params.side = "Long" /\ params.size_delta_usd > 0
    /\ prices.index_price_min > 0 /\ prices.index_price_max > 0
    /\ pricing_out.tag = "Ok"
    /\ pricing_out.price_impact_usd >= 0

\* C10 as claimed: a Long increase priced with price_impact_usd >= 0 has
\* size_delta_tokens >= base_size_delta_tokens and execution_price <=
\* index_price_max.
C10_HelpfulLongAsClaimed ==
    HelpfulLongPriced
    => /\ pricing_out.size_delta_tokens >= pricing_out.base_size_delta_tokens
       /\ pricing_out.execution_price <= prices.index_price_max

\* C10 as amended: a Long increase priced with price_impact_usd >= 0 has
\* size_delta_tokens >= base_size_delta_tokens; its execution_price is at most
\* the price without impact, size_delta_usd / base_size_delta_tokens, when
\* base_size_delta_tokens > 0, and at most index_price_max when index_price_max
\* divides size_delta_usd.
C10_HelpfulLong ==
    HelpfulLongPriced
    => /\ pricing_out.size_delta_tokens >= pricing_out.base_size_delta_tokens
       /\ pricing_out.base_size_delta_tokens > 0 =>
              pricing_out.execution_price
                  <= TruncDiv(params.size_delta_usd, pricing_out.base_size_delta_tokens)
       /\ TruncRem(params.size_delta_usd, prices.index_price_max) = 0 =>
              pricing_out.execution_price <= prices.index_price_max

\* A helpful long has been priced with bonus tokens on top of a rounded base.
C10_Witness ==
    /\ HelpfulLongPriced
    /\ pricing_out.balance_was_improved
    /\ oi.current.short_usd = 9 /\ oi.current.long_usd = 2 /\ oi.next.long_usd = 5
    /\ pricing_out.price_impact_amount_tokens > 0
    /\ pricing_out.base_size_delta_tokens > 0
    /\ pricing_out.size_delta_tokens > pricing_out.base_size_delta_tokens
    /\ TruncRem(params.size_delta_usd, prices.index_price_max) # 0

HarmfulLongPriced ==
    /\ pc = "priced"
    /\ params.side = "Long" /\ params.size_delta_usd > 0
    /\ prices.index_price_min > 0 /\ prices.index_price_max > 0
    /\ pricing_out.tag = "Ok"
    /\ pricing_out.price_impact_usd <= 0

\* C11: harmful long pricing: a Long increase priced with price_impact_usd <= 0
\* (size_delta_usd > 0, positive index prices) has size_delta_tokens <=
\* base_size_delta_tokens and execution_price >= index_price_max.
C11_HarmfulLong ==
    HarmfulLongPriced
    => /\ pricing_out.size_delta_tokens <= pricing_out.base_size_delta_tokens
       /\ pricing_out.execution_price >= prices.index_price_max

\* C11 away from the most negative impact: the same bounds hold whenever
\* price_impact_usd > i128::MIN, so that its negation at pricing.rs:106 is exact.
C11_HarmfulLongAboveMin ==
    (HarmfulLongPriced /\ pricing_out.price_impact_usd > I128Min)
    => /\ pricing_out.size_delta_tokens <= pricing_out.base_size_delta_tokens
       /\ pricing_out.execution_price >= prices.index_price_max

----------------------------------------------------------------------------
(* state/pool_balances.rs *)

\* entry((market_id, asset)).or_insert(0)
pool_entry_mut(b, k) ==
    IF k \in b.keys THEN b ELSE [keys |-> b.keys \cup {k}, of |-> [b.of EXCEPT ![k] = 0]]

get_balance(b, market_id, asset) ==
    IF <<market_id, asset>> \in b.keys THEN b.of[<<market_id, asset>>] ELSE 0

add_fee_to_pool(b, market_id, asset, amount) ==
    IF amount = 0 THEN b
    ELSE LET e == pool_entry_mut(b, <<market_id, asset>>)
         IN [e EXCEPT !.of[<<market_id, asset>>] = saturating_add(@, amount)]

add_liquidity(b, market_id, asset, amount) ==
    IF amount = 0 THEN b
    ELSE LET e == pool_entry_mut(b, <<market_id, asset>>)
         IN [e EXCEPT !.of[<<market_id, asset>>] = saturating_add(@, amount)]

add_liquidity_pair(b, market_id, long_asset, long_amount, short_asset, short_amount) ==
    LET b1 == IF long_amount > 0
              THEN add_liquidity(b, market_id, long_asset, long_amount) ELSE b
    IN IF short_amount > 0
       THEN add_liquidity(b1, market_id, short_asset, short_amount) ELSE b1

PoolOk(taken, b) == [tag |-> "Ok", err |-> "", taken |-> taken, balances |-> b]
PoolErr(e, b) == [tag |-> "Err", err |-> e, taken |-> 0, balances |-> b]
PoolPanic(b) == [tag |-> "Panic", err |-> "", taken |-> 0, balances |-> b]

\* `*bal -= amount` is an unchecked subtraction: it panics on overflow in a
\* build with overflow checks and wraps otherwise.
remove_liquidity(b, market_id, asset, amount, checks) ==
    IF amount = 0 THEN PoolOk(0, b)
    ELSE LET key == <<market_id, asset>>
             e == pool_entry_mut(b, key)
             bal == e.of[key]
         IN IF bal < amount THEN PoolErr("insufficient_pool_liquidity", e)
            ELSE IF ~InI128(bal - amount) /\ checks THEN PoolPanic(e)
            ELSE PoolOk(amount, [e EXCEPT !.of[key] = WrapI128(bal - amount)])

\* The two removals in sequence; `?` returns at the first error.
remove_liquidity_pair(b, market_id, long_asset, long_amount, short_asset, short_amount, checks) ==
    LET first == remove_liquidity(b, market_id, long_asset, long_amount, checks)
        second == remove_liquidity(first.balances, market_id, short_asset,
                                   short_amount, checks)
    IN IF first.tag # "Ok"
       THEN [tag |-> first.tag, err |-> first.err, taken |-> 0, taken2 |-> 0,
             balances |-> first.balances]
       ELSE IF second.tag # "Ok"
       THEN [tag |-> second.tag, err |-> second.err, taken |-> 0, taken2 |-> 0,
             balances |-> second.balances]
       ELSE [tag |-> "Ok", err |-> "", taken |-> first.taken,
             taken2 |-> second.taken, balances |-> second.balances]

(* Driver of the pool balances: any sequence of calls on an empty pool. *)

MaxPoolOps == 2
PoolAmounts == {I128Min, -2, 0, 3, I128Max}
PoolPairAmounts == {-2, 0, 3, 5}
PoolPairAssets == {<<1, 2>>, <<1, 1>>}

notPoolVars == <<pc, overflow_checks, serviceVars, clmVars, ordVars>>
IdleNotPool == IdleServices /\ IdleClaimables /\ IdleOrders

InitPool ==
    /\ pc = "pool"
    /\ IdlePool
    /\ overflow_checks \in BOOLEAN
    /\ IdleNotPool

PoolCall(op, m, a, amt, a2, amt2, tag, err, taken, taken2) ==
    [op |-> op, market |-> m, asset |-> a, amount |-> amt, asset2 |-> a2,
     amount2 |-> amt2, before |-> pool_balances, tag |-> tag, err |-> err,
     taken |-> taken, taken2 |-> taken2]

PoolCanCall == pool_ops < MaxPoolOps /\ pool_last.tag # "Panic"

AddFeeToPool(m, a, amt) ==
    /\ PoolCanCall
    /\ pool_balances' = add_fee_to_pool(pool_balances, m, a, amt)
    /\ pool_last' = PoolCall("add_fee_to_pool", m, a, amt, 0, 0, "Ok", "", 0, 0)
    /\ pool_ops' = pool_ops + 1
    /\ UNCHANGED notPoolVars

AddLiquidity(m, a, amt) ==
    /\ PoolCanCall
    /\ pool_balances' = add_liquidity(pool_balances, m, a, amt)
    /\ pool_last' = PoolCall("add_liquidity", m, a, amt, 0, 0, "Ok", "", 0, 0)
    /\ pool_ops' = pool_ops + 1
    /\ UNCHANGED notPoolVars

AddLiquidityPair(m, la, lamt, sa, samt) ==
    /\ PoolCanCall
    /\ pool_balances' = add_liquidity_pair(pool_balances, m, la, lamt, sa, samt)
    /\ pool_last' = PoolCall("add_liquidity_pair", m, la, lamt, sa, samt,
                             "Ok", "", 0, 0)
    /\ pool_ops' = pool_ops + 1
    /\ UNCHANGED notPoolVars

RemoveLiquidity(m, a, amt) ==
    /\ PoolCanCall
    /\ LET res == remove_liquidity(pool_balances, m, a, amt, overflow_checks)
       IN /\ pool_balances' = res.balances
          /\ pool_last' = PoolCall("remove_liquidity", m, a, amt, 0, 0,
                                   res.tag, res.err, res.taken, 0)
    /\ pool_ops' = pool_ops + 1
    /\ UNCHANGED notPoolVars

RemoveLiquidityPair(m, la, lamt, sa, samt) ==
    /\ PoolCanCall
    /\ LET res == remove_liquidity_pair(pool_balances, m, la, lamt, sa, samt,
                                        overflow_checks)
       IN /\ pool_balances' = res.balances
          /\ pool_last' = PoolCall("remove_liquidity_pair", m, la, lamt, sa, samt,
                                   res.tag, res.err, res.taken, res.taken2)
    /\ pool_ops' = pool_ops + 1
    /\ UNCHANGED notPoolVars

NextPool ==
    \/ \E m \in PoolMarkets, a \in PoolAssets, amt \in PoolAmounts :
          \/ AddFeeToPool(m, a, amt)
          \/ AddLiquidity(m, a, amt)
          \/ RemoveLiquidity(m, a, amt)
    \/ \E m \in PoolMarkets, as \in PoolPairAssets :
       \E lamt \in PoolPairAmounts, samt \in PoolPairAmounts :
          \/ AddLiquidityPair(m, as[1], lamt, as[2], samt)
          \/ RemoveLiquidityPair(m, as[1], lamt, as[2], samt)

SpecPool == InitPool /\ [][NextPool]_vars

\* C12: pool balances are non-negative in every reachable state: get_balance
\* (market, asset) >= 0 for every (market, asset) after any sequence of calls
\* with arbitrary TokenAmount arguments on an empty PoolBalances.
C12_PoolNonNegative ==
    \A k \in PoolKeys : get_balance(pool_balances, k[1], k[2]) >= 0

\* C13: remove_liquidity(market, asset, amount) returns the error
\* insufficient_pool_liquidity exactly when amount exceeds the balance of
\* (market, asset), and then get_balance is unchanged for every key; otherwise
\* it returns amount and lowers only that one balance by exactly amount.
C13_RemoveLiquidity ==
    (pool_last.op = "remove_liquidity" /\ pool_last.tag # "Panic")
    => LET before == pool_last.before
           key == <<pool_last.market, pool_last.asset>>
           others_unchanged ==
               \A k \in PoolKeys \ {key} :
                   get_balance(pool_balances, k[1], k[2]) = get_balance(before, k[1], k[2])
       IN IF pool_last.amount > get_balance(before, key[1], key[2])
          THEN /\ pool_last.tag = "Err"
               /\ pool_last.err = "insufficient_pool_liquidity"
               /\ others_unchanged
               /\ get_balance(pool_balances, key[1], key[2])
                      = get_balance(before, key[1], key[2])
          ELSE /\ pool_last.tag = "Ok"
               /\ pool_last.taken = pool_last.amount
               /\ others_unchanged
               /\ get_balance(pool_balances, key[1], key[2])
                      = get_balance(before, key[1], key[2]) - pool_last.amount

----------------------------------------------------------------------------
(* state/claimables.rs: the amounts are handled as U256 (U256::zero(),       *)
(* saturating_add, is_zero), an unsigned word of WideBits bits here.         *)

u256_saturating_add(a, b) == Min2(U256Max, a + b)

\* HashMap::get(..).cloned().unwrap_or(zero)
ledger_get(l, k) == IF k \in l.keys THEN l.of[k] ELSE 0

\* entry(key).or_insert(zero), then saturating_add(amount)
ledger_add(l, k, amount) ==
    [keys |-> l.keys \cup {k},
     of |-> [l.of EXCEPT ![k] = u256_saturating_add(ledger_get(l, k), amount)]]

\* HashMap::remove(key)
ledger_remove(l, k) == [keys |-> l.keys \ {k}, of |-> [l.of EXCEPT ![k] = 0]]

add_funding(c, account, asset, amount) ==
    IF amount = 0 THEN c
    ELSE [c EXCEPT !.funding = ledger_add(@, <<account, asset>>, amount)]

get_funding(c, account, asset) == ledger_get(c.funding, <<account, asset>>)

take_funding_all(c, account, asset) ==
    [value |-> ledger_get(c.funding, <<account, asset>>),
     claimables |-> [c EXCEPT !.funding = ledger_remove(@, <<account, asset>>)]]

add_fee(c, account, asset, amount) ==
    IF amount = 0 THEN c
    ELSE [c EXCEPT !.fees = ledger_add(@, <<account, asset>>, amount)]

get_fee(c, account, asset) == ledger_get(c.fees, <<account, asset>>)

take_fee_all(c, account, asset) ==
    [value |-> ledger_get(c.fees, <<account, asset>>),
     claimables |-> [c EXCEPT !.fees = ledger_remove(@, <<account, asset>>)]]

balance_of(c, account, asset) ==
    u256_saturating_add(get_funding(c, account, asset), get_fee(c, account, asset))

\* A take_all that forgets the fees ledger.
take_all_funding_only(c, account, asset) ==
    take_funding_all(c, account, asset)

take_all(c, account, asset) ==
    LET a == take_funding_all(c, account, asset)
        b == take_fee_all(a.claimables, account, asset)
    IN [value |-> u256_saturating_add(a.value, b.value), claimables |-> b.claimables]

\* The entries are taken before the total is tested.
claim_all(c, account, asset) ==
    LET t == take_all(c, account, asset)
    IN IF t.value = 0
       THEN [tag |-> "Err", err |-> "nothing_to_claim", value |-> 0,
             claimables |-> t.claimables]
       ELSE [tag |-> "Ok", err |-> "", value |-> t.value, claimables |-> t.claimables]

\* The map `acc` built by list_by_account: asset -> funding + fees of the
\* account, for the assets with a non-zero entry.
list_by_account_entries(c, account) ==
    {<<asset, u256_saturating_add(get_funding(c, account, asset),
                                  get_fee(c, account, asset))>> :
        asset \in {x \in ClaimAssets : get_funding(c, account, x) # 0
                                        \/ get_fee(c, account, x) # 0}}

\* acc.into_iter().collect(): the entries in the iteration order of a HashMap,
\* which is any order.
list_by_account(c, account) ==
    LET entries == list_by_account_entries(c, account)
        n == Cardinality(entries)
    IN {q \in [1..n -> entries] : \A i, j \in 1..n : i # j => q[i] # q[j]}

(* Driver of the claimables ledger: any sequence of calls on an empty one. *)

MaxClaimOps == 3
ClaimAmounts == {0, 4, U256Max}

notClmVars == <<pc, overflow_checks, serviceVars, poolVars, ordVars>>
IdleNotClaimables == IdleServices /\ IdlePool /\ IdleOrders

InitClaimables ==
    /\ pc = "claimables"
    /\ IdleClaimables
    /\ overflow_checks = TRUE
    /\ IdleNotClaimables

ClaimCall(op, account, asset, amount, tag, err, value) ==
    [op |-> op, account |-> account, asset |-> asset, amount |-> amount,
     before |-> claimables, tag |-> tag, err |-> err, value |-> value]

AddFunding(account, asset, amount) ==
    /\ claim_ops < MaxClaimOps
    /\ claimables' = add_funding(claimables, account, asset, amount)
    /\ claim_last' = ClaimCall("add_funding", account, asset, amount, "Ok", "", 0)
    /\ claim_ops' = claim_ops + 1
    /\ listing' = NoListing
    /\ UNCHANGED notClmVars

AddFee(account, asset, amount) ==
    /\ claim_ops < MaxClaimOps
    /\ claimables' = add_fee(claimables, account, asset, amount)
    /\ claim_last' = ClaimCall("add_fee", account, asset, amount, "Ok", "", 0)
    /\ claim_ops' = claim_ops + 1
    /\ listing' = NoListing
    /\ UNCHANGED notClmVars

TakeFundingAll(account, asset) ==
    /\ claim_ops < MaxClaimOps
    /\ LET res == take_funding_all(claimables, account, asset)
       IN /\ claimables' = res.claimables
          /\ claim_last' = ClaimCall("take_funding_all", account, asset, 0,
                                     "Ok", "", res.value)
    /\ claim_ops' = claim_ops + 1
    /\ listing' = NoListing
    /\ UNCHANGED notClmVars

TakeFeeAll(account, asset) ==
    /\ claim_ops < MaxClaimOps
    /\ LET res == take_fee_all(claimables, account, asset)
       IN /\ claimables' = res.claimables
          /\ claim_last' = ClaimCall("take_fee_all", account, asset, 0,
                                     "Ok", "", res.value)
    /\ claim_ops' = claim_ops + 1
    /\ listing' = NoListing
    /\ UNCHANGED notClmVars

ClaimAll(account, asset) ==
    /\ claim_ops < MaxClaimOps
    /\ LET res == claim_all(claimables, account, asset)
       IN /\ claimables' = res.claimables
          /\ claim_last' = ClaimCall("claim_all", account, asset, 0,
                                     res.tag, res.err, res.value)
    /\ claim_ops' = claim_ops + 1
    /\ listing' = NoListing
    /\ UNCHANGED notClmVars

\* The ledger and a ledger holding the same entries are both listed; the
\* listing is kept until the next mutating call.
ListByAccount(account) ==
    /\ \E first \in list_by_account(claimables, account),
          second \in list_by_account(claimables, account) :
          listing' = [tag |-> "Listed", account |-> account,
                      first |-> first, second |-> second]
    /\ UNCHANGED <<claimables, claim_last, claim_ops, notClmVars>>

NextClaimables ==
    \/ \E account \in ClaimAccounts, asset \in ClaimAssets :
          \/ \E amount \in ClaimAmounts :
                AddFunding(account, asset, amount) \/ AddFee(account, asset, amount)
          \/ TakeFundingAll(account, asset)
          \/ TakeFeeAll(account, asset)
          \/ ClaimAll(account, asset)
    \/ \E account \in ClaimAccounts : ListByAccount(account)

SpecClaimables == InitClaimables /\ [][NextClaimables]_vars

\* C14: claim_all(account, asset) returns nothing_to_claim exactly when
\* balance_of(account, asset) is zero before the call, and then every readable
\* balance is unchanged; otherwise it returns the prior balance_of, afterwards
\* get_funding, get_fee and balance_of of that (account, asset) are zero and
\* the entries of every other (account, asset) are unchanged.
C14_ClaimAll ==
    claim_last.op = "claim_all"
    => LET before == claim_last.before
           account == claim_last.account
           asset == claim_last.asset
           same(k) ==
               /\ get_funding(claimables, k[1], k[2]) = get_funding(before, k[1], k[2])
               /\ get_fee(claimables, k[1], k[2]) = get_fee(before, k[1], k[2])
               /\ balance_of(claimables, k[1], k[2]) = balance_of(before, k[1], k[2])
       IN IF balance_of(before, account, asset) = 0
          THEN /\ claim_last.tag = "Err"
               /\ claim_last.err = "nothing_to_claim"
               /\ \A k \in ClaimKeys : same(k)
          ELSE /\ claim_last.tag = "Ok"
               /\ claim_last.value = balance_of(before, account, asset)
               /\ get_funding(claimables, account, asset) = 0
               /\ get_fee(claimables, account, asset) = 0
               /\ balance_of(claimables, account, asset) = 0
               /\ \A k \in ClaimKeys \ {<<account, asset>>} : same(k)

\* An account holding funding and fees in one asset has claimed their sum.
C14_Witness ==
    /\ claim_last.op = "claim_all"
    /\ claim_last.tag = "Ok"
    /\ get_funding(claim_last.before, claim_last.account, claim_last.asset) = 4
    /\ get_fee(claim_last.before, claim_last.account, claim_last.asset) = 4
    /\ claim_last.value = 8

\* C16: determinism of ledger listing: list_by_account(account) returns the
\* same sequence of (asset, amount) pairs for any two ledgers holding the same
\* entries, whatever order the underlying map iterates in.
C16_ListingDeterministic ==
    listing.tag = "Listed" => listing.first = listing.second

\* The listing is deterministic as a set of (asset, amount) pairs.
C16_ListingSameEntries ==
    listing.tag = "Listed"
    => {listing.first[i] : i \in DOMAIN listing.first}
           = {listing.second[i] : i \in DOMAIN listing.second}

----------------------------------------------------------------------------
(* state/order_store.rs: next_id is a u64, a word of OrderIdBits bits here;  *)
(* the map is kept as the set of ids it holds, the orders themselves are not *)
(* read by the store.                                                        *)

OrderIdBits == 3
U64Max == 2^OrderIdBits - 1
OrderIds == 0..U64Max

\* A create that numbers the new order by the count of live orders.
create_numbers_by_len(st) ==
    [panic |-> FALSE, id |-> Cardinality(st.orders),
     store |-> [orders |-> st.orders \cup {Cardinality(st.orders)},
                next_id |-> st.next_id]]

\* checked_add(1).expect(..) panics at u64::MAX, before the insert.
create(st) ==
    IF st.next_id = U64Max
    THEN [panic |-> TRUE, id |-> st.next_id, store |-> st]
    ELSE [panic |-> FALSE, id |-> st.next_id,
          store |-> [orders |-> st.orders \cup {st.next_id},
                     next_id |-> st.next_id + 1]]

\* HashMap::remove: Some exactly when the id was held.
remove(st, id) ==
    [some |-> id \in st.orders, store |-> [st EXCEPT !.orders = @ \ {id}]]

contains(st, id) == id \in st.orders

(* Driver of the order store: any interleaving of create and remove. *)

notOrdVars == <<pc, overflow_checks, serviceVars, poolVars, clmVars>>
IdleNotOrders == IdleServices /\ IdlePool /\ IdleClaimables

InitOrders ==
    /\ pc = "orders"
    /\ IdleOrders
    /\ overflow_checks = TRUE
    /\ IdleNotOrders

Create ==
    /\ ~order_panic
    /\ LET res == create(order_store)
       IN /\ order_store' = res.store
          /\ order_panic' = res.panic
          /\ created_ids' = IF res.panic THEN created_ids
                            ELSE Append(created_ids, res.id)
    /\ UNCHANGED <<removed_ids, notOrdVars>>

Remove(id) ==
    /\ ~order_panic
    /\ LET res == remove(order_store, id)
       IN /\ order_store' = res.store
          /\ removed_ids' = IF res.some THEN removed_ids \cup {id} ELSE removed_ids
    /\ UNCHANGED <<created_ids, order_panic, notOrdVars>>

NextOrders == Create \/ \E id \in OrderIds : Remove(id)

SpecOrders == InitOrders /\ [][NextOrders]_vars

\* C15: monotonic order ids: over any interleaving of create and remove the
\* ids returned by successive create calls are 0, 1, 2, ... (strictly
\* increasing, never handed out twice, also after a removal), and contains(id)
\* is true exactly for the ids created and not yet removed.
C15_MonotonicIds ==
    /\ \A i \in DOMAIN created_ids : created_ids[i] = i - 1
    /\ \A id \in OrderIds :
          contains(order_store, id)
              <=> /\ \E i \in DOMAIN created_ids : created_ids[i] = id
                  /\ id \notin removed_ids

\* An order was created after the removal of an earlier one, and both a live
\* and a removed id exist.
C15_Witness ==
    /\ Len(created_ids) >= 3
    /\ 0 \in removed_ids
    /\ ~contains(order_store, 0)
    /\ contains(order_store, 1) /\ contains(order_store, 2)
    /\ order_store.next_id = 3

----------------------------------------------------------------------------
(* Further properties of the risk precheck, over SpecPrecheck. *)

\* C17: precheck output is normalized: whenever the precheck returns
\* Ok((d, w, f)), 0 < d <= pos.size_usd, 0 <= w <= pos.collateral_amount, f
\* holds exactly when d = pos.size_usd, and f implies w = 0.
C17_PrecheckNormalized ==
    pre_out.tag = "Ok"
    => /\ 0 < pre_out.size_delta_usd /\ pre_out.size_delta_usd <= pos.size_usd
       /\ 0 <= pre_out.withdraw_tokens
       /\ pre_out.withdraw_tokens <= pos.collateral_amount
       /\ pre_out.is_full_close <=> (pre_out.size_delta_usd = pos.size_usd)
       /\ pre_out.is_full_close => pre_out.withdraw_tokens = 0

\* A partial decrease whose withdraw request exceeded the collateral went
\* through with the withdraw clamped to the whole collateral.
C17_Witness ==
    /\ pc = "prechecked"
    /\ pre_out.tag = "Ok"
    /\ ~pre_out.is_full_close
    /\ order.size_delta_usd < pos.size_usd
    /\ order.withdraw_collateral_amount > pos.collateral_amount
    /\ pre_out.withdraw_tokens = pos.collateral_amount
    /\ pre_out.withdraw_tokens > 0

\* The requested decrease is partial and leaves no dust: the inputs pass the
\* sanity checks, the clamped size delta is below the position size and the
\* remaining size is at least min_position_size_usd.
NonDustPartial ==
    /\ pc # "input"
    /\ precheck_sanity(pos, order, prices, risk) = ""
    /\ order.size_delta_usd < pos.size_usd
    /\ pos.size_usd - order.size_delta_usd >= risk.min_position_size_usd
    /\ pre_out.tag # "Panic"

RequestedWithdraw == Min2(order.withdraw_collateral_amount, pos.collateral_amount)

SufficientWith(w) ==
    will_position_collateral_be_sufficient_pre(
        pos.size_usd - order.size_delta_usd, pos.collateral_amount, w, prices, risk)

\* C18: precheck intervenes minimally on a non-dust partial decrease: it
\* returns the requested withdraw (clamped to collateral_amount) when the
\* sufficiency predicate holds with it; it zeroes the withdraw, keeping
\* is_full_close = false, exactly when the predicate fails with that withdraw
\* but holds with withdraw = 0; and it escalates to full close (size_usd, 0,
\* true) exactly when the predicate fails even with withdraw = 0.
C18_MinimalIntervention ==
    NonDustPartial
    => /\ SufficientWith(RequestedWithdraw) = "true"
           => pre_out = PreOk(order.size_delta_usd, RequestedWithdraw, FALSE)
       /\ ( /\ pre_out = PreOk(order.size_delta_usd, 0, FALSE)
            /\ RequestedWithdraw # 0 )
           <=> ( /\ SufficientWith(RequestedWithdraw) = "false"
                 /\ SufficientWith(0) = "true" )
       /\ pre_out = PreOk(pos.size_usd, 0, TRUE) <=> SufficientWith(0) = "false"

\* A partial decrease kept its size but lost its withdraw: the collateral is
\* sufficient only when nothing is withdrawn.
C18_Witness ==
    /\ NonDustPartial
    /\ pc = "prechecked"
    /\ RequestedWithdraw > 0
    /\ SufficientWith(RequestedWithdraw) = "false"
    /\ SufficientWith(0) = "true"
    /\ pre_out = PreOk(order.size_delta_usd, 0, FALSE)

----------------------------------------------------------------------------
(* risk/validation.rs: the post-check, and its agreement with the pre-check *)

PostOk == [tag |-> "Ok", err |-> ""]
PostErr(e) == [tag |-> "Err", err |-> e]

\* A post-check that also rejects a collateral equal to the leverage minimum.
postcheck_rejects_equality(pa, p, r) ==
    IF pa.size_usd = 0 THEN PostOk
    ELSE IF pa.size_usd < 0 \/ pa.size_tokens < 0 \/ pa.collateral_amount < 0
         THEN PostErr("position_negative_values_after_settlement")
    ELSE IF p.collateral_price_min <= 0 THEN PostErr("invalid_collateral_price_min")
    ELSE IF MulOverflows(pa.collateral_amount, p.collateral_price_min)
         THEN PostErr("collateral_usd_overflow")
    ELSE IF pa.collateral_amount * p.collateral_price_min < r.min_collateral_usd
         THEN PostErr("remaining_collateral_below_min")
    ELSE IF MulOverflows(pa.size_usd, r.min_collateral_factor_fp)
         THEN PostErr("min_for_leverage_overflow")
    ELSE IF r.factor_scale = 0
            \/ (pa.size_usd * r.min_collateral_factor_fp = I128Min
                /\ r.factor_scale = -1)
         THEN PostErr("invalid_factor_scale")
    ELSE IF pa.collateral_amount * p.collateral_price_min
               <= TruncDiv(pa.size_usd * r.min_collateral_factor_fp, r.factor_scale)
         THEN PostErr("remaining_position_exceeds_max_leverage")
    ELSE PostOk

postcheck_remaining_position(pa, p, r) ==
    IF pa.size_usd = 0 THEN PostOk
    ELSE IF pa.size_usd < 0 \/ pa.size_tokens < 0 \/ pa.collateral_amount < 0
         THEN PostErr("position_negative_values_after_settlement")
    ELSE IF p.collateral_price_min <= 0 THEN PostErr("invalid_collateral_price_min")
    ELSE IF MulOverflows(pa.collateral_amount, p.collateral_price_min)
         THEN PostErr("collateral_usd_overflow")
    ELSE IF pa.collateral_amount * p.collateral_price_min < r.min_collateral_usd
         THEN PostErr("remaining_collateral_below_min")
    ELSE IF MulOverflows(pa.size_usd, r.min_collateral_factor_fp)
         THEN PostErr("min_for_leverage_overflow")
    ELSE IF r.factor_scale = 0
            \/ (pa.size_usd * r.min_collateral_factor_fp = I128Min
                /\ r.factor_scale = -1)
         THEN PostErr("invalid_factor_scale")
    ELSE IF pa.collateral_amount * p.collateral_price_min
               < TruncDiv(pa.size_usd * r.min_collateral_factor_fp, r.factor_scale)
         THEN PostErr("remaining_position_exceeds_max_leverage")
    ELSE PostOk

(* Driver: the pre-check predicate and the post-check are applied to the     *)
(* same remaining position: size_usd = next_size_usd, collateral_amount =    *)
(* current collateral - withdraw.                                            *)

PostNextSize == {-5, 0, 1, 50, 70, I128Max}
PostCollateral == {0, 5, 20, I128Max}
PostWithdraw == {-1, 0, 3, 15, 30}
PostSizeTokens == {-1, 0, 1}
PostCollateralPriceMin == {0, 1, 2}
PostMinCollateralUsd == {0, 5}
PostFactorFp == {-1, 1, 5}
PostFactorScale == {-1, 0, 10}

InitPostcheck ==
    /\ pc = "input"
    /\ pre_args \in [next_size_usd : PostNextSize,
                     current_collateral_tokens : PostCollateral,
                     withdraw_tokens : PostWithdraw]
    /\ \E size_tokens \in PostSizeTokens :
          pos_after = [size_usd |-> pre_args.next_size_usd,
                       size_tokens |-> size_tokens,
                       collateral_amount |-> pre_args.current_collateral_tokens
                                                - pre_args.withdraw_tokens]
    /\ InI128(pos_after.collateral_amount)
    /\ prices \in [index_price_min : {1}, index_price_max : {1},
                   collateral_price_min : PostCollateralPriceMin,
                   collateral_price_max : {2}]
    /\ risk \in [min_position_size_usd : {0},
                 min_collateral_usd : PostMinCollateralUsd,
                 min_collateral_factor_fp : PostFactorFp,
                 factor_scale : PostFactorScale]
    /\ suff_out = "none"
    /\ post_out = NoPostcheck
    /\ overflow_checks = TRUE
    /\ IdleNotCheck

CheckBoth ==
    /\ pc = "input"
    /\ suff_out' = will_position_collateral_be_sufficient_pre(
                       pre_args.next_size_usd, pre_args.current_collateral_tokens,
                       pre_args.withdraw_tokens, prices, risk)
    /\ post_out' = postcheck_remaining_position(pos_after, prices, risk)
    /\ pc' = "checked"
    /\ UNCHANGED <<pre_args, pos_after, prices, risk, overflow_checks, notChkVars>>

NextPostcheck == CheckBoth

SpecPostcheck == InitPostcheck /\ [][NextPostcheck]_vars

\* The case of C19: a positive remaining size, a withdraw within the
\* collateral, a positive price and scale, and no product out of range.
AgreementCase ==
    /\ pc = "checked"
    /\ pre_args.next_size_usd > 0
    /\ 0 <= pre_args.withdraw_tokens
    /\ pre_args.withdraw_tokens <= pre_args.current_collateral_tokens
    /\ prices.collateral_price_min > 0
    /\ risk.factor_scale > 0
    /\ pos_after.size_tokens >= 0
    /\ ~MulOverflows(pos_after.collateral_amount, prices.collateral_price_min)
    /\ ~MulOverflows(pre_args.next_size_usd, risk.min_collateral_factor_fp)

\* C19: precheck and postcheck agree: for next_size_usd > 0, 0 <= withdraw <=
\* collateral, collateral_price_min > 0, factor_scale > 0 and no overflow, the
\* sufficiency predicate is true exactly when postcheck_remaining_position
\* returns Ok for the position with size_usd = next_size_usd, size_tokens >= 0
\* and collateral_amount = collateral - withdraw.
C19_PreAgreesWithPost ==
    AgreementCase => (suff_out = "true" <=> post_out.tag = "Ok")

\* Both checks accepted a remaining position whose collateral value equals
\* the leverage minimum exactly.
C19_Witness ==
    /\ AgreementCase
    /\ suff_out = "true"
    /\ post_out.tag = "Ok"
    /\ pre_args.withdraw_tokens > 0
    /\ pos_after.collateral_amount * prices.collateral_price_min
           = TruncDiv(pre_args.next_size_usd * risk.min_collateral_factor_fp,
                      risk.factor_scale)
    /\ pos_after.collateral_amount > 0

\* C19, second part, over SpecPrecheck: a decrease that the precheck leaves
\* partial passes the post-check when the settlement charges nothing, whatever
\* non-negative token size remains.
C19_PartialPassesPostcheck ==
    (pre_out.tag = "Ok" /\ ~pre_out.is_full_close)
    => \A size_tokens \in {0, pos.size_tokens} :
          postcheck_remaining_position(
              [size_usd |-> pos.size_usd - pre_out.size_delta_usd,
               size_tokens |-> size_tokens,
               collateral_amount |-> pos.collateral_amount - pre_out.withdraw_tokens],
              prices, risk) = PostOk

----------------------------------------------------------------------------
(* Further properties of the funding indices, over SpecFunding. *)

\* C20: funding index symmetry: every update_indices call leaves
\* cumulative_index_long + cumulative_index_short unchanged, so the sum stays 0
\* on a market that starts with both indices at 0; over an interval dt of an
\* initialised market a long-heavy open interest raises the long index and
\* lowers the short index by the same 10 * dt, a short-heavy one mirrors, and
\* a balanced or empty market changes only last_updated_at.
C20_FundingSymmetry ==
    [][ LET f == market.funding
            g == market'.funding
            dt == g.last_updated_at - f.last_updated_at
            long_oi == Max2(market.oi_long_usd, 0)
            short_oi == Max2(market.oi_short_usd, 0)
            indices_unchanged ==
                /\ g.cumulative_index_long = f.cumulative_index_long
                /\ g.cumulative_index_short = f.cumulative_index_short
        IN /\ g.cumulative_index_long + g.cumulative_index_short
                  = f.cumulative_index_long + f.cumulative_index_short
           /\ g.cumulative_index_long + g.cumulative_index_short = 0
           /\ (f.last_updated_at # 0 /\ dt > 0 /\ long_oi > short_oi)
                  => /\ g.cumulative_index_long = f.cumulative_index_long + 10 * dt
                     /\ g.cumulative_index_short = f.cumulative_index_short - 10 * dt
           /\ (f.last_updated_at # 0 /\ dt > 0 /\ long_oi < short_oi)
                  => /\ g.cumulative_index_long = f.cumulative_index_long - 10 * dt
                     /\ g.cumulative_index_short = f.cumulative_index_short + 10 * dt
           /\ (f.last_updated_at = 0 \/ dt = 0 \/ long_oi = short_oi)
                  => indices_unchanged
           /\ (\E now \in Timestamps : UpdateIndices(now))
                  => /\ market'.oi_long_usd = market.oi_long_usd
                     /\ market'.oi_short_usd = market.oi_short_usd
                     /\ market'.liquidity_usd = market.liquidity_usd
                     /\ market'.borrowing = market.borrowing ]_vars

\* The indices moved up over a long-heavy interval and back down over a
\* shorter short-heavy one.
C20_Witness ==
    /\ market.funding.cumulative_index_long = 10
    /\ market.funding.cumulative_index_short = -10
    /\ market.funding.last_updated_at = 4
    /\ market.oi_short_usd > market.oi_long_usd
    /\ market.oi_long_usd > 0

----------------------------------------------------------------------------
(* services/borrowing.rs: the first-call latch *)

\* The rate of the formula (5 + 20 * u_fp / 10^6), u_fp = min(10^6,
\* (oi_long + oi_short) * 10^6 / liquidity) and 0 without liquidity, for
\* open interest and liquidity that are not negative.
formula_rate(m) ==
    LET borrowed == m.oi_long_usd + m.oi_short_usd
        u_fp == IF m.liquidity_usd = 0 THEN 0
                ELSE IF borrowed >= m.liquidity_usd THEN BORROW_INDEX_SCALE
                ELSE (borrowed * BORROW_INDEX_SCALE) \div m.liquidity_usd
    IN base_rate_fp_per_sec + (slope_fp_per_sec * u_fp) \div BORROW_INDEX_SCALE

FormulaDomain(m) ==
    /\ m.oi_long_usd >= 0 /\ m.oi_short_usd >= 0 /\ m.liquidity_usd >= 0
    /\ InI128(m.oi_long_usd + m.oi_short_usd)

\* A step of update_index that wrote to the borrowing state advanced
\* cumulative_factor by the formula's rate over the elapsed time.
AdvancedByFormula ==
    market'.borrowing # market.borrowing =>
        /\ market'.borrowing.last_updated_at > market.borrowing.last_updated_at
        /\ market'.borrowing.cumulative_factor =
               market.borrowing.cumulative_factor
               + formula_rate(market)
                 * (market'.borrowing.last_updated_at
                    - market.borrowing.last_updated_at)

\* C21: only the first update_index call on a market is the latch: once a
\* call has been made (whatever timestamp it latched, 0 included), every
\* later call that moves the borrowing state advances cumulative_factor by
\* exactly (5 + 20 * u_fp / 10^6) * (now - last_updated_at) and sets
\* last_updated_at = now.
C21_LatchOnlyOnce ==
    [][ (pc = "called" /\ FormulaDomain(market)) => AdvancedByFormula ]_vars

\* The same statement for a market whose latch recorded a timestamp other
\* than 0.
C21_AdvanceAfterNonzeroLatch ==
    [][ (market.borrowing.last_updated_at # 0 /\ FormulaDomain(market))
            => AdvancedByFormula ]_vars

----------------------------------------------------------------------------
(* Time-additivity of update_indices and update_index *)

\* update_indices and then update_index, both brought up to `now`.
update_both(m, now, checks) ==
    LET f == update_indices(m, now, checks)
        b == update_index(f.market, now, checks)
    IN [panic |-> f.panic \/ b.panic, market |-> b.market]

TwinOi == {0, 3, I128Max}
TwinLiquidity == {0, 4}

notTwinVars ==
    <<prices, preVars, pnlVars, impVars, prcVars, chkVars, storeVars,
      long_pos, short_pos, fee_long, fee_short, stepVars, closeVars, feesVars>>

(* Driver: the host sets open interest and liquidity and brings the market *)
(* up to date any number of times; then, with open interest and liquidity  *)
(* held fixed, `market` is updated at t1 and at t2 and `market_once` only  *)
(* at t2.                                                                  *)

InitAdditive ==
    /\ pc = "setup"
    /\ market = NewMarket
    /\ market_once = NewMarket
    /\ long_pos = NoPosition("Long")
    /\ short_pos = NoPosition("Short")
    /\ fee_long = NoFee
    /\ fee_short = NoFee
    /\ overflow_checks \in BOOLEAN
    /\ prices = IdlePrices
    /\ IdlePrecheck /\ IdlePnl /\ IdleImpact /\ IdlePricing /\ IdleCheck /\ IdleStores
    /\ IdleStep /\ IdleClose /\ IdleFees

Initialised(m) ==
    m.funding.last_updated_at # 0 /\ m.borrowing.last_updated_at # 0

SetMarket(l, s, q) ==
    /\ pc = "setup"
    /\ market' = [market EXCEPT !.oi_long_usd = l, !.oi_short_usd = s,
                                !.liquidity_usd = q]
    /\ market_once' = market'
    /\ UNCHANGED <<pc, overflow_checks, notTwinVars>>

BringUpToDate(now) ==
    /\ pc = "setup"
    /\ LET r == update_both(market, now, overflow_checks)
       IN /\ market' = r.market
          /\ market_once' = r.market
          /\ pc' = IF r.panic THEN "panic" ELSE "setup"
    /\ UNCHANGED <<overflow_checks, notTwinVars>>

UpdateFirst(t1) ==
    /\ pc = "setup"
    /\ Initialised(market)
    /\ t1 > market.funding.last_updated_at
    /\ t1 > market.borrowing.last_updated_at
    /\ LET r == update_both(market, t1, overflow_checks)
       IN /\ market' = r.market
          /\ pc' = IF r.panic THEN "panic" ELSE "first"
    /\ UNCHANGED <<market_once, overflow_checks, notTwinVars>>

UpdateSecond(t2) ==
    /\ pc = "first"
    /\ t2 > market.funding.last_updated_at
    /\ LET r == update_both(market, t2, overflow_checks)
           once == update_both(market_once, t2, overflow_checks)
       IN /\ market' = r.market
          /\ market_once' = once.market
          /\ pc' = IF r.panic \/ once.panic THEN "panic" ELSE "both"
    /\ UNCHANGED <<overflow_checks, notTwinVars>>

NextAdditive ==
    \/ \E l \in TwinOi, s \in TwinOi, q \in TwinLiquidity : SetMarket(l, s, q)
    \/ \E now \in Timestamps : BringUpToDate(now)
    \/ \E t1 \in Timestamps : UpdateFirst(t1)
    \/ \E t2 \in Timestamps : UpdateSecond(t2)

SpecAdditive == InitAdditive /\ [][NextAdditive]_vars

\* C22: index evolution is time-additive: on an initialised market with
\* open interest and liquidity held fixed, update(t1) followed by update(t2),
\* t0 = last_updated_at < t1 < t2, leaves the funding indices, the borrowing
\* cumulative_factor and both last_updated_at fields exactly as the single
\* update(t2) does.
C22_TimeAdditive ==
    pc = "both" => market = market_once

\* Two updates over 1 s and 2 s at funding rate 10 and borrowing rate
\* 5 + 20 * 3/4 give what one update over 3 s gives.
C22_Witness ==
    /\ pc = "both"
    /\ market.oi_long_usd = 3 /\ market.oi_short_usd = 0
    /\ market.liquidity_usd = 4
    /\ market.funding.last_updated_at = 4
    /\ market.funding.cumulative_index_long = 30
    /\ market.funding.cumulative_index_short = -30
    /\ market.borrowing.cumulative_factor = 60
    /\ market_once.borrowing.cumulative_factor = 60

----------------------------------------------------------------------------
(* services/funding_step.rs *)

StepOk(cost, fee, ps, c) ==
    [tag |-> "Ok", err |-> "", cost_usd |-> cost, fee_usd |-> fee, pos |-> ps,
     claimables |-> c]
StepErr(e, fee, ps, c) ==
    [tag |-> "Err", err |-> e, cost_usd |-> 0, fee_usd |-> fee, pos |-> ps,
     claimables |-> c]
StepPanic(ps, c) ==
    [tag |-> "Panic", err |-> "", cost_usd |-> 0, fee_usd |-> 0, pos |-> ps,
     claimables |-> c]

\* A funding step that rounds the reward up to the next token.
apply_funding_step_rounds_up(m, ps, c, p, checks) ==
    LET settled == settle_position_funding(m, ps, checks)
        fee_usd == settled.delta.funding_fee_usd
        reward_usd == -fee_usd
        reward_tokens ==
            TruncDiv(reward_usd + p.collateral_price_min - 1, p.collateral_price_min)
    IN IF settled.delta.tag = "Panic" THEN StepPanic(ps, c)
       ELSE IF fee_usd = 0 THEN StepOk(0, fee_usd, settled.pos, c)
       ELSE IF fee_usd > 0 THEN StepOk(fee_usd, fee_usd, settled.pos, c)
       ELSE IF p.collateral_price_min <= 0
       THEN StepErr("invalid_collateral_price_min_for_funding", fee_usd,
                    settled.pos, c)
       ELSE IF reward_tokens > 0
       THEN StepOk(0, fee_usd, settled.pos,
                   add_funding(c, ps.account, ps.collateral_token, reward_tokens))
       ELSE StepOk(0, fee_usd, settled.pos, c)

\* A funding step that validates the price before it settles the position.
apply_funding_step_checks_first(m, ps, c, p, checks) ==
    LET settled == settle_position_funding(m, ps, checks)
        fee_usd == settled.delta.funding_fee_usd
        reward_usd == -fee_usd
        reward_tokens == TruncDiv(reward_usd, p.collateral_price_min)
    IN IF settled.delta.tag = "Panic" THEN StepPanic(ps, c)
       ELSE IF fee_usd = 0 THEN StepOk(0, fee_usd, settled.pos, c)
       ELSE IF fee_usd > 0 THEN StepOk(fee_usd, fee_usd, settled.pos, c)
       ELSE IF p.collateral_price_min <= 0
       THEN StepErr("invalid_collateral_price_min_for_funding", fee_usd, ps, c)
       ELSE IF reward_tokens > 0
       THEN StepOk(0, fee_usd, settled.pos,
                   add_funding(c, ps.account, ps.collateral_token, reward_tokens))
       ELSE StepOk(0, fee_usd, settled.pos, c)

\* apply_funding_step(funding_svc, market, pos, claimables, prices): the
\* result, the position and the claimables it leaves.  The position is
\* settled, and its snapshot advanced, before anything else is looked at.
apply_funding_step(m, ps, c, p, checks) ==
    LET settled == settle_position_funding(m, ps, checks)
        fee_usd == settled.delta.funding_fee_usd
        reward_usd == -fee_usd
        reward_tokens == TruncDiv(reward_usd, p.collateral_price_min)
    IN IF settled.delta.tag = "Panic" THEN StepPanic(ps, c)
       ELSE IF fee_usd = 0 THEN StepOk(0, fee_usd, settled.pos, c)
       ELSE IF fee_usd > 0 THEN StepOk(fee_usd, fee_usd, settled.pos, c)
       ELSE IF p.collateral_price_min <= 0
       THEN StepErr("invalid_collateral_price_min_for_funding", fee_usd,
                    settled.pos, c)
       ELSE IF reward_tokens > 0
       THEN StepOk(0, fee_usd, settled.pos,
                   add_funding(c, ps.account, ps.collateral_token, reward_tokens))
       ELSE StepOk(0, fee_usd, settled.pos, c)

(* Driver of the funding step: the host changes the open interest, the     *)
(* indices are advanced, a position is opened at the current index of its  *)
(* side, the oracle reports a collateral price and the step is applied.    *)

MaxSteps == 2
StepOi == {<<100, 0>>, <<0, 100>>}
StepKeys == {<<1, 1>>, <<2, 2>>}
StepSize == {150000}
StepCollateralPriceMin == {0, 1, 2}

notStepVars ==
    <<preVars, pnlVars, impVars, prcVars, chkVars, poolVars, ordVars,
      long_pos, short_pos, fee_long, fee_short, claim_last, claim_ops, listing,
      twinVars, closeVars, feesVars>>

InitStep ==
    /\ pc = "step"
    /\ market = NewMarket
    /\ claimables = NoClaimables
    /\ prices = IdlePrices
    /\ overflow_checks \in BOOLEAN
    /\ IdleStep
    /\ long_pos = NoPosition("Long")
    /\ short_pos = NoPosition("Short")
    /\ fee_long = NoFee
    /\ fee_short = NoFee
    /\ claim_last = NoClaimCall
    /\ claim_ops = 0
    /\ listing = NoListing
    /\ IdlePrecheck /\ IdlePnl /\ IdleImpact /\ IdlePricing /\ IdleCheck
    /\ IdlePool /\ IdleOrders
    /\ IdleTwin /\ IdleClose /\ IdleFees

StepSetOpenInterest(l, s) ==
    /\ step_calls < MaxSteps
    /\ market' = [market EXCEPT !.oi_long_usd = l, !.oi_short_usd = s]
    /\ step_out' = NoStep
    /\ UNCHANGED <<pc, prices, overflow_checks, step_pos, step_calls, claimables,
                   notStepVars>>

StepUpdateIndices(now) ==
    /\ step_calls < MaxSteps
    /\ market' = update_indices(market, now, overflow_checks).market
    /\ step_out' = NoStep
    /\ UNCHANGED <<pc, prices, overflow_checks, step_pos, step_calls, claimables,
                   notStepVars>>

OpenPosition(account, asset, sd, size) ==
    /\ step_calls < MaxSteps
    /\ step_pos' = [account |-> account, collateral_token |-> asset, side |-> sd,
                    size_usd |-> size,
                    funding_index |-> current_index_for_side(market, sd)]
    /\ step_out' = NoStep
    /\ UNCHANGED <<pc, prices, overflow_checks, market, step_calls, claimables,
                   notStepVars>>

SetCollateralPrice(p) ==
    /\ prices' = [prices EXCEPT !.collateral_price_min = p]
    /\ UNCHANGED <<pc, overflow_checks, market, step_pos, step_out, step_calls,
                   claimables, notStepVars>>

\* step_out keeps the call: what it returned, the fee that was settled, the
\* collateral_price_min, the position and the claimables it was given, and
\* whether it is a retry, the
\* call after a failed one with nothing but the prices changed in between.
ApplyFundingStep ==
    /\ step_calls < MaxSteps
    /\ step_calls' = step_calls + 1
    /\ LET r == apply_funding_step(market, step_pos, claimables, prices,
                                   overflow_checks)
       IN /\ step_pos' = r.pos
          /\ claimables' = r.claimables
          /\ step_out' = [tag |-> r.tag, err |-> r.err, cost_usd |-> r.cost_usd,
                          fee_usd |-> r.fee_usd,
                          price |-> prices.collateral_price_min,
                          pos_before |-> step_pos,
                          claimables_before |-> claimables,
                          retry |-> (step_out.tag = "Err")]
    /\ UNCHANGED <<pc, prices, overflow_checks, market, notStepVars>>

NextStep ==
    \/ \E o \in StepOi : StepSetOpenInterest(o[1], o[2])
    \/ \E now \in Timestamps : StepUpdateIndices(now)
    \/ \E k \in StepKeys, sd \in {"Long", "Short"}, size \in StepSize :
          OpenPosition(k[1], k[2], sd, size)
    \/ \E p \in StepCollateralPriceMin : SetCollateralPrice(p)
    \/ ApplyFundingStep

SpecStep == InitStep /\ [][NextStep]_vars

StepKey == <<step_out.pos_before.account, step_out.pos_before.collateral_token>>

\* C23: apply_funding_step routing: cost_usd is never negative, it is the
\* settled fee when the fee is positive and 0 otherwise; when the fee is
\* negative and collateral_price_min > 0 the call succeeds and the funding
\* claimable of (pos.key.account, pos.key.collateral_token) grows by exactly
\* floor(|fee| / collateral_price_min) tokens, worth at most |fee| at that
\* price, and no other claimable entry changes.
C23_FundingStepRouting ==
    /\ step_out.tag = "Ok" =>
        /\ step_out.cost_usd >= 0
        /\ step_out.cost_usd = IF step_out.fee_usd > 0 THEN step_out.fee_usd ELSE 0
        /\ step_out.fee_usd >= 0 => claimables = step_out.claimables_before
    /\ (step_out.tag \in {"Ok", "Err"} /\ step_out.fee_usd < 0 /\ step_out.price > 0) =>
        LET tokens == (-step_out.fee_usd) \div step_out.price
        IN /\ step_out.tag = "Ok"
           /\ tokens * step_out.price <= -step_out.fee_usd
           /\ get_funding(claimables, StepKey[1], StepKey[2])
                = get_funding(step_out.claimables_before, StepKey[1], StepKey[2])
                  + tokens
           /\ \A k \in ClaimKeys \ {StepKey} :
                get_funding(claimables, k[1], k[2])
                    = get_funding(step_out.claimables_before, k[1], k[2])
           /\ claimables.fees = step_out.claimables_before.fees

\* A receiver of 3 USD is credited 1 token at price 2 while another
\* account holds a funding claimable.
C23_Witness ==
    /\ step_out.tag = "Ok"
    /\ step_out.fee_usd = -3
    /\ step_out.price = 2
    /\ step_out.cost_usd = 0
    /\ get_funding(claimables, StepKey[1], StepKey[2]) = 1
    /\ \E k \in ClaimKeys \ {StepKey} : get_funding(claimables, k[1], k[2]) > 0

\* C24: apply_funding_step returns an error for every call whose
\* prices.collateral_price_min <= 0.
C24_ErrorOnInvalidPrice ==
    (step_out.tag \in {"Ok", "Err"} /\ step_out.price <= 0) => step_out.tag = "Err"

\* The error is returned where the price is needed: fee < 0, price <= 0.
C24_ErrorWhenRewardDue ==
    (step_out.tag \in {"Ok", "Err"} /\ step_out.price <= 0)
        => (step_out.tag = "Err" <=> step_out.fee_usd < 0)

\* C25: a failed apply_funding_step is not state-neutral: no claimable is
\* credited, but the position's funding_index has been advanced to the
\* market's current index for its side, so the retry on the same position
\* with valid prices returns cost_usd = 0 and credits nothing.
C25_FailureAdvancesSnapshot ==
    /\ step_out.tag = "Err" =>
        /\ claimables = step_out.claimables_before
        /\ step_pos.funding_index = current_index_for_side(market, step_pos.side)
        /\ step_pos.funding_index # step_out.pos_before.funding_index
    /\ (step_out.retry /\ step_out.price > 0) =>
        /\ step_out.tag = "Ok"
        /\ step_out.cost_usd = 0
        /\ claimables = step_out.claimables_before

\* The retry of a failed step was made at price 1 and returned 0.
C25_Witness ==
    /\ step_out.retry
    /\ step_out.tag = "Ok"
    /\ step_out.price = 1
    /\ step_out.cost_usd = 0
    /\ step_out.fee_usd = 0
    /\ step_out.pos_before.funding_index < 0
    /\ claimables = NoClaimables

----------------------------------------------------------------------------
(* state/pool_balances.rs: removal of a pair *)

\* A remove_liquidity_pair call with amounts and balances that are not
\* negative has returned.
PairRemoved ==
    /\ pool_last.op = "remove_liquidity_pair"
    /\ pool_last.tag # "Panic"
    /\ pool_last.amount >= 0 /\ pool_last.amount2 >= 0
    /\ \A k \in PoolKeys : get_balance(pool_last.before, k[1], k[2]) >= 0

PairLowered(k) ==
    (IF k = <<pool_last.market, pool_last.asset>> THEN pool_last.amount ELSE 0)
    + (IF k = <<pool_last.market, pool_last.asset2>> THEN pool_last.amount2 ELSE 0)

\* C26: remove_liquidity_pair is all-or-nothing: it either succeeds and
\* lowers the long-asset and the short-asset balance by the requested
\* amounts, or returns insufficient_pool_liquidity and leaves every balance
\* as it was before the call.
C26_PairAllOrNothing ==
    PairRemoved =>
        \/ /\ pool_last.tag = "Ok"
           /\ \A k \in PoolKeys :
                get_balance(pool_balances, k[1], k[2])
                    = get_balance(pool_last.before, k[1], k[2]) - PairLowered(k)
        \/ /\ pool_last.tag = "Err"
           /\ pool_last.err = "insufficient_pool_liquidity"
           /\ \A k \in PoolKeys :
                get_balance(pool_balances, k[1], k[2])
                    = get_balance(pool_last.before, k[1], k[2])

\* What the pair removal does keep: a failure of the first removal leaves
\* every balance as it was, and a success lowers both.
C26_FirstFailureIsNeutral ==
    PairRemoved =>
        /\ pool_last.tag = "Ok" =>
             \A k \in PoolKeys :
                get_balance(pool_balances, k[1], k[2])
                    = get_balance(pool_last.before, k[1], k[2]) - PairLowered(k)
        /\ (pool_last.tag = "Err"
            /\ pool_last.amount
                 > get_balance(pool_last.before, pool_last.market, pool_last.asset)) =>
             \A k \in PoolKeys :
                get_balance(pool_balances, k[1], k[2])
                    = get_balance(pool_last.before, k[1], k[2])

----------------------------------------------------------------------------
(* services/pricing.rs: the failures of an increase *)

\* floor(size_delta_usd / index_price_max) for a Long,
\* ceil(size_delta_usd / index_price_min) for a Short.
RoundedBase ==
    IF params.side = "Long" THEN params.size_delta_usd \div prices.index_price_max
    ELSE -((-params.size_delta_usd) \div prices.index_price_min)

\* The impact tokens of step 2 for the impact the call computed.
ImpactTokens ==
    price_impact_amount_tokens(impact_out.price_impact_usd, prices,
                               overflow_checks).tokens

RoundedSum ==
    IF params.side = "Long" THEN RoundedBase + ImpactTokens
    ELSE RoundedBase - ImpactTokens

IncreasePriced ==
    /\ pc = "priced"
    /\ params.size_delta_usd # 0
    /\ prices.index_price_min > 0 /\ prices.index_price_max > 0

PricedByRoundedSum ==
    IF RoundedSum < 0
    THEN pricing_out.tag = "Err" /\ pricing_out.err = "PriceImpactLargerThanOrderSize"
    ELSE IF RoundedSum = 0
    THEN pricing_out.tag = "Err" /\ pricing_out.err = "ZeroSizeTokensAfterImpact"
    ELSE /\ pricing_out.tag = "Ok"
         /\ pricing_out.base_size_delta_tokens = RoundedBase
         /\ pricing_out.size_delta_tokens = RoundedSum
         /\ pricing_out.size_delta_tokens > 0
         /\ pricing_out.execution_price
                = params.size_delta_usd \div pricing_out.size_delta_tokens

\* C27 as claimed: for size_delta_usd # 0 and positive index prices the
\* increase fails with PriceImpactLargerThanOrderSize exactly when base plus
\* (Long) or minus (Short) the impact tokens is negative, with
\* ZeroSizeTokensAfterImpact exactly when it is zero, and otherwise succeeds
\* with size_delta_tokens > 0 and execution_price = size_delta_usd /
\* size_delta_tokens truncated; base is floor(size_delta_usd /
\* index_price_max) for a Long and ceil(size_delta_usd / index_price_min) for
\* a Short.
C27_IncreaseFailuresAsClaimed ==
    IncreasePriced => PricedByRoundedSum

\* The same holds for size_delta_usd > 0 where no step of the arithmetic
\* leaves the i128 range.
C27_IncreaseFailuresInRange ==
    (/\ IncreasePriced
     /\ params.size_delta_usd > 0
     /\ impact_out.tag = "Ok"
     /\ impact_out.price_impact_usd # I128Min
     /\ InI128(RoundedSum)) => PricedByRoundedSum

----------------------------------------------------------------------------
(* math/position.rs *)

\* A token delta that rounds a long down, as it does a short.
size_delta_in_tokens_floors_long(ps, size_delta_usd, is_full_close) ==
    IF is_full_close \/ size_delta_usd = ps.size_usd THEN NumOk(ps.size_tokens)
    ELSE IF ps.size_usd <= 0 \/ ps.size_tokens <= 0 \/ size_delta_usd <= 0
    THEN NumErr("invalid_position_or_size_delta")
    ELSE IF MulOverflows(ps.size_tokens, size_delta_usd)
    THEN NumErr("size_delta_mul_overflow")
    ELSE LET n == ps.size_tokens * size_delta_usd
             t == div_floor_u(n, ps.size_usd)
         IN IF t.tag # "Ok" THEN t ELSE NumOk(Max2(t.tokens, 0))

\* size_delta_in_tokens(pos, size_delta_usd, is_full_close)
size_delta_in_tokens(ps, size_delta_usd, is_full_close) ==
    IF is_full_close \/ size_delta_usd = ps.size_usd THEN NumOk(ps.size_tokens)
    ELSE IF ps.size_usd <= 0 \/ ps.size_tokens <= 0 \/ size_delta_usd <= 0
    THEN NumErr("invalid_position_or_size_delta")
    ELSE IF MulOverflows(ps.size_tokens, size_delta_usd)
    THEN NumErr("size_delta_mul_overflow")
    ELSE LET n == ps.size_tokens * size_delta_usd
             t == IF ps.side = "Long" THEN div_ceil_u(n, ps.size_usd)
                  ELSE div_floor_u(n, ps.size_usd)
         IN IF t.tag # "Ok" THEN t ELSE NumOk(Max2(t.tokens, 0))

CloseSizeUsd == {-5, 0, 1, 7, 10, I128Max}
CloseSizeTokens == {-1, 0, 1, 3, 4, I128Max}
CloseSizeDelta == {-5, 0, 1, 3, 7, 10, I128Max}

notCloseVars ==
    <<prices, overflow_checks, preVars, pnlVars, mktVars, impVars, prcVars, chkVars,
      storeVars, twinVars, stepVars, feesVars>>

InitClose ==
    /\ pc = "input"
    /\ close_args \in [side : {"Long", "Short"}, size_usd : CloseSizeUsd,
                        size_tokens : CloseSizeTokens,
                        size_delta_usd : CloseSizeDelta, is_full_close : BOOLEAN]
    /\ close_out = NoClose
    /\ prices = IdlePrices
    /\ overflow_checks \in BOOLEAN
    /\ IdlePrecheck /\ IdlePnl /\ IdleMarket /\ IdleImpact /\ IdlePricing /\ IdleCheck
    /\ IdleStores /\ IdleTwin /\ IdleStep /\ IdleFees

SizeDeltaInTokens ==
    /\ pc = "input"
    /\ close_out' = size_delta_in_tokens(close_args, close_args.size_delta_usd,
                                         close_args.is_full_close)
    /\ pc' = "done"
    /\ UNCHANGED <<close_args, notCloseVars>>

NextClose == SizeDeltaInTokens

SpecClose == InitClose /\ [][NextClose]_vars

PartialClose ==
    /\ pc = "done"
    /\ ~close_args.is_full_close
    /\ 0 < close_args.size_delta_usd
    /\ close_args.size_delta_usd < close_args.size_usd
    /\ close_args.size_tokens > 0

ProductInRange == ~MulOverflows(close_args.size_tokens, close_args.size_delta_usd)

\* ceil for a Long and floor for a Short of
\* size_tokens * size_delta_usd / size_usd (the product in range).
RoundedShare ==
    LET n == close_args.size_tokens * close_args.size_delta_usd
    IN IF close_args.side = "Long" THEN -((-n) \div close_args.size_usd)
       ELSE n \div close_args.size_usd

FullCloseReturnsAll ==
    (pc = "done"
     /\ (close_args.is_full_close \/ close_args.size_delta_usd = close_args.size_usd))
        => close_out = NumOk(close_args.size_tokens)

\* C28 as claimed: a partial close returns ceil(size_tokens * size_delta_usd
\* / size_usd) for a Long and the floor for a Short, a result in
\* [0, pos.size_tokens]; a full close or size_delta_usd = pos.size_usd
\* returns pos.size_tokens.
C28_PartialCloseAsClaimed ==
    /\ PartialClose =>
        /\ close_out.tag = "Ok"
        /\ ProductInRange => close_out.tokens = RoundedShare
        /\ 0 <= close_out.tokens /\ close_out.tokens <= close_args.size_tokens
    /\ FullCloseReturnsAll

\* C28: a partial close whose product size_tokens * size_delta_usd is in
\* the i128 range returns the share rounded up for a Long and down for a
\* Short, in [0, pos.size_tokens]; one whose product overflows fails with
\* size_delta_mul_overflow; a full close or size_delta_usd = pos.size_usd
\* returns pos.size_tokens.
C28_PartialClose ==
    /\ (PartialClose /\ ProductInRange) =>
        /\ close_out.tag = "Ok"
        /\ close_out.tokens = RoundedShare
        /\ 0 <= close_out.tokens /\ close_out.tokens <= close_args.size_tokens
    /\ (PartialClose /\ ~ProductInRange) =>
        close_out = NumErr("size_delta_mul_overflow")
    /\ FullCloseReturnsAll

\* A long closing 3 of 7 USD of a 4-token position gives up ceil(12/7) = 2.
C28_Witness ==
    /\ PartialClose
    /\ close_args.side = "Long"
    /\ close_args.size_usd = 7 /\ close_args.size_tokens = 4
    /\ close_args.size_delta_usd = 3
    /\ close_out = NumOk(2)

\* C29: size_delta_in_tokens returns an error whenever pos.size_usd <= 0,
\* pos.size_tokens <= 0 or size_delta_usd <= 0, for every value of
\* is_full_close.
C29_ErrorOnNonPositive ==
    (pc = "done"
     /\ (\/ close_args.size_usd <= 0
         \/ close_args.size_tokens <= 0
         \/ close_args.size_delta_usd <= 0)) => close_out.tag = "Err"

\* The validation is reached only by a call that is not a full close and
\* whose size_delta_usd differs from pos.size_usd.
C29_ErrorUnlessFullClose ==
    (pc = "done"
     /\ ~close_args.is_full_close
     /\ close_args.size_delta_usd # close_args.size_usd
     /\ (\/ close_args.size_usd <= 0
         \/ close_args.size_tokens <= 0
         \/ close_args.size_delta_usd <= 0))
        => close_out = NumErr("invalid_position_or_size_delta")

----------------------------------------------------------------------------
(* services/fees.rs: the rates are u32, an unsigned word of BpsBits bits    *)
(* here; basis points are out of 10_000 and the rebate is a percentage.     *)

BpsBits == 14
U32Max == 2^BpsBits - 1
BPS_DENOMINATOR == 10000

\* u32::saturating_mul
u32_saturating_mul(a, b) == Min2(U32Max, a * b)

\* The product of two residues modulo 2^UsdBits, by doubling.
RECURSIVE mul_mod(_, _)
mul_mod(a, b) ==
    IF b = 0 THEN 0
    ELSE LET h == mul_mod(a, b \div 2)
         IN (2 * h + (IF b % 2 = 1 THEN a ELSE 0)) % (2 * (I128Max + 1))

\* `a * b` on i128 in the release build: the product wrapped.
wrapping_mul(a, b) ==
    WrapI128(mul_mod(a % (2 * (I128Max + 1)), b % (2 * (I128Max + 1))))

base_position_fee_bps(svc, order_type) ==
    IF order_type = "Increase" THEN svc.position_fee_bps_increase
    ELSE IF order_type = "Decrease" THEN svc.position_fee_bps_decrease
    ELSE 0

\* Step 1: the position fee rate after the rebate for a helpful trade.
\* `100 - helpful_rebate_percent` is a u32 subtraction: below zero the debug
\* build panics and the release build wraps.
position_fee_bps(svc, order_type, balance_was_improved, checks) ==
    LET base == base_position_fee_bps(svc, order_type)
        diff == 100 - svc.helpful_rebate_percent
        kept == IF diff < 0 THEN diff + U32Max + 1 ELSE diff
    IN IF balance_was_improved /\ base > 0 /\ svc.helpful_rebate_percent > 0
       THEN [panic |-> checks /\ diff < 0,
             bps |-> u32_saturating_mul(base, kept) \div 100]
       ELSE [panic |-> FALSE, bps |-> base]

FeesOk(pf, pt, lf, lt) ==
    [tag |-> "Ok", position_fee_usd |-> pf, position_fee_tokens |-> pt,
     liquidation_fee_usd |-> lf, liquidation_fee_tokens |-> lt]
FeesPanic == [NoStepFees EXCEPT !.tag = "Panic"]

\* compute_fees(pos, order, prices, balance_was_improved, size_delta_usd):
\* the StepFees, or the panic of the debug build on `abs`, on the u32
\* subtraction or on a product out of range.
compute_fees(svc, order_type, p, balance_was_improved, size_delta_usd, checks) ==
    LET notional_usd == IF size_delta_usd = I128Min THEN I128Min
                        ELSE Abs(size_delta_usd)
        rate == position_fee_bps(svc, order_type, balance_was_improved, checks)
        liq_bps == IF order_type = "Liquidation" THEN svc.liquidation_fee_bps ELSE 0
        position_fee_usd ==
            TruncDiv(wrapping_mul(notional_usd, rate.bps), BPS_DENOMINATOR)
        liquidation_fee_usd ==
            TruncDiv(wrapping_mul(notional_usd, liq_bps), BPS_DENOMINATOR)
        price == p.collateral_price_min
    IN IF checks /\ (\/ size_delta_usd = I128Min
                     \/ rate.panic
                     \/ MulOverflows(notional_usd, rate.bps)
                     \/ MulOverflows(notional_usd, liq_bps))
       THEN FeesPanic
       ELSE FeesOk(position_fee_usd,
                   IF price > 0 THEN TruncDiv(position_fee_usd, price) ELSE 0,
                   liquidation_fee_usd,
                   IF price > 0 THEN TruncDiv(liquidation_fee_usd, price) ELSE 0)

(* Driver of the fees service: one step priced twice, as a helpful trade   *)
(* and as one that is not.                                                 *)

FeeIncreaseBps == {0, 30}
FeeDecreaseBps == {10}
FeeLiquidationBps == {50}
FeeRebatePercent == {0, 25, 100, 150}
FeeSizeDelta == {I128Min, -10000, 0, 3333, 10000, I128Max}
FeeCollateralPriceMin == {0, 3}

notFeesVars ==
    <<prices, overflow_checks, preVars, pnlVars, mktVars, impVars, prcVars, chkVars,
      storeVars, twinVars, stepVars, closeVars>>

InitFees ==
    /\ pc = "input"
    /\ fees_svc \in [position_fee_bps_increase : FeeIncreaseBps,
                      position_fee_bps_decrease : FeeDecreaseBps,
                      liquidation_fee_bps : FeeLiquidationBps,
                      helpful_rebate_percent : FeeRebatePercent]
    /\ fee_args \in [order_type : {"Increase", "Decrease", "Liquidation"},
                      size_delta_usd : FeeSizeDelta]
    /\ fees_out = [improved |-> NoStepFees, plain |-> NoStepFees]
    /\ \E p \in FeeCollateralPriceMin :
          prices = [IdlePrices EXCEPT !.collateral_price_min = p]
    /\ overflow_checks \in BOOLEAN
    /\ IdlePrecheck /\ IdlePnl /\ IdleMarket /\ IdleImpact /\ IdlePricing /\ IdleCheck
    /\ IdleStores /\ IdleTwin /\ IdleStep /\ IdleClose

ComputeFees ==
    /\ pc = "input"
    /\ fees_out' =
          [improved |-> compute_fees(fees_svc, fee_args.order_type, prices, TRUE,
                                     fee_args.size_delta_usd, overflow_checks),
           plain |-> compute_fees(fees_svc, fee_args.order_type, prices, FALSE,
                                  fee_args.size_delta_usd, overflow_checks)]
    /\ pc' = "done"
    /\ UNCHANGED <<fees_svc, fee_args, notFeesVars>>

NextFees == ComputeFees

SpecFees == InitFees /\ [][NextFees]_vars

\* notional * floor(base_bps * (100 - rebate) / 100) / 10_000
RebatedFee ==
    LET base == base_position_fee_bps(fees_svc, fee_args.order_type)
        bps == (base * (100 - fees_svc.helpful_rebate_percent)) \div 100
    IN TruncDiv(Abs(fee_args.size_delta_usd) * bps, BPS_DENOMINATOR)

FeesAsClaimed ==
    /\ fees_out.improved.tag = "Ok" /\ fees_out.plain.tag = "Ok"
    /\ fees_out.improved.position_fee_usd = RebatedFee
    /\ fees_out.improved.position_fee_usd <= fees_out.plain.position_fee_usd
    /\ fee_args.order_type = "Liquidation" =>
          /\ fees_out.improved.position_fee_usd = 0
          /\ fees_out.plain.position_fee_usd = 0
    /\ fee_args.order_type # "Liquidation" =>
          /\ fees_out.improved.liquidation_fee_usd = 0
          /\ fees_out.plain.liquidation_fee_usd = 0

\* C30: the helpful-trade rebate never raises the fee: for every order
\* type, notional and configured helpful_rebate_percent, compute_fees with
\* balance_was_improved = true returns position_fee_usd = notional *
\* floor(base_bps * (100 - rebate) / 100) / 10_000, at most the
\* position_fee_usd of the same inputs with balance_was_improved = false;
\* Liquidation orders have position_fee_usd = 0 and only they have a
\* non-zero liquidation_fee_usd.
C30_RebateNeverRaisesFee ==
    pc = "done" => FeesAsClaimed

\* The same for a rebate of at most 100 percent and products in range.
C30_RebateUpToHundred ==
    (/\ pc = "done"
     /\ fees_svc.helpful_rebate_percent <= 100
     /\ fee_args.size_delta_usd # I128Min
     /\ ~MulOverflows(Abs(fee_args.size_delta_usd),
                      Max2(base_position_fee_bps(fees_svc, fee_args.order_type),
                           fees_svc.liquidation_fee_bps))) => FeesAsClaimed

====
